---- MODULE Spec2Model ----
(***************************************************************************)
(* EGAfetch download engine: one file driven by its File Downloader        *)
(* (internal/download/file.go), the chunk downloader                       *)
(* (internal/download/chunk.go), the merge helper (merge.go), the state    *)
(* store (internal/state) and the orchestrator's per-file task             *)
(* (orchestrator.go).  A byte of the source file is modelled by its        *)
(* offset, so a file content is a sequence of offsets and the source is    *)
(* <<0, 1, ..., size-1>>.  Disk contents survive Kill; the in-memory       *)
(* FileState, the chunk workers and the adaptive state do not.             *)
(*                                                                         *)
(* SaveFileState is one step: atomicWriteJSON changes the target only by   *)
(* its final rename, so a kill inside it leaves the same target as a kill  *)
(* just before or just after it.  The steps of atomicWriteJSON itself are  *)
(* modelled by the Aw* actions of SpecAtomic.                              *)
(***************************************************************************)
EXTENDS Integers, Sequences, FiniteSets, TLC

\* ---------------------------------------------------------------- bounds
MaxSize == 3
MaxChunkSize == 2
MaxParallel == 2
MaxFaults == 1
MaxChunkRetryCount == 1
MaxVersions == 2
MaxDataLen == 2
MaxRetryFaults == 7
MaxChainLen == 3
MaxSiblings == 2
MaxParallelFiles == 2
MaxPlanChunks == 6

\* ------------------------------------------------------ program constants
maxFileRetries == 3
maxChunkRetries == 5
minAdaptiveChunkSize == 8388608
maxAdaptiveChunkSize == 268435456
adaptiveWindowSize == 3

VARIABLES
    fspec,      \* FileSpec of the manifest entry: size, checksum given or not
    cmd0,       \* DownloadOptions of the command line of the first run
    opts,       \* DownloadOptions of the running process
    disk,       \* <file_id>.json: the persisted FileState, or NoState
    parts,      \* chunks/<file_id>/NNN.part: index -> content
    chunkDir,   \* chunks/<file_id>/ exists
    outTmp,     \* <file_name>.tmp
    out,        \* <file_name>
    md5,        \* <file_name>.md5
    pc,         \* position of the process in Orchestrator / FileDownload.Run
    fstate,     \* fd.fstate, the in-memory FileState
    work,       \* chunk workers of the running batch: position -> worker
    rest,       \* adaptive dispatch: positions of `pending` after the batch
    adaptive,   \* fd.adaptive: the window and currentChunkSize, or NoAdaptive
    cancelled,  \* the signal context of this process is cancelled
    lastReq,    \* last ranged GET sent by this process
    lastResult, \* last orchestrator callback and how the last process ended
    merged,     \* history: this process renamed the merged output into place
    faults,     \* history: number of non-contract server responses so far
    killed,     \* history: some process was killed
    aw,         \* the files written by temp file and rename, step by step
    lastErr,    \* history: the last error of an attempt and how it was classed
    orch,       \* Orchestrator.Download: its file tasks, permits and errgroup
    ui          \* onBytes / onProgress: fd.liveBytesSoFar and the calls under way

vars == <<fspec, cmd0, opts, disk, parts, chunkDir, outTmp, out, md5, pc,
          fstate, work, rest, adaptive, cancelled, lastReq,
          lastResult, merged, faults, killed, aw, lastErr, orch, ui>>

diskVars == <<disk, parts, chunkDir, outTmp, out, md5>>

\* ---------------------------------------------------------------- helpers
Min(a, b) == IF a < b THEN a ELSE b

NoState == [status |-> "absent"]
NoFile == <<-1>>
NoAdaptive == [n |-> -1, cur |-> 0, win |-> <<>>]
\* DownloadOptions.Limiter: nil, or the shared token bucket with its rate
\* in bytes per second and the tokens taken from it so far
\* no byte reported and no progress callback under way
NoProgress == [live |-> 0, last |-> 0, calls |-> <<>>]
NoLimiter == [limit |-> 0, taken |-> 0]
NoOpts == [chunkSize |-> 0, parallel |-> 0, adaptive |-> FALSE,
           limiter |-> NoLimiter]
NoOrch == [parallelFiles |-> 0]
NoErr == [pos |-> 0, chain |-> <<>>, retried |-> FALSE]
NoReq == [index |-> -1, from |-> -1, to |-> -1]

\* bytes [a, b) of the source file
SeqRange(a, b) == [i \in 1..(b - a) |-> a + i - 1]

Source == SeqRange(0, fspec.size)

Options == [chunkSize : 1..MaxChunkSize, parallel : 1..MaxParallel,
            adaptive : BOOLEAN, limiter : {NoLimiter}]

RECURSIVE Concat(_)
Concat(ss) == IF ss = <<>> THEN <<>> ELSE Head(ss) \o Concat(Tail(ss))

RECURSIVE SumSeq(_)
SumSeq(s) == IF s = <<>> THEN 0 ELSE Head(s) + SumSeq(Tail(s))

\* hex digest of a content (MD5 / SHA256 taken as collision-free): the
\* digest of a content names its length and its bytes
ComputeChecksum(f) == [hex |-> <<Len(f)>> \o f]

NoDigest == [hex |-> <<>>]

\* FileSpec.Checksum: the digest of the source, or "" when none is given
ChecksumExpected == IF fspec.checksum THEN ComputeChecksum(Source) ELSE NoDigest

\* ---------------------------------------------------------- state package
NewChunk(index, start, end) ==
    [index |-> index, start |-> start, end |-> end, status |-> "pending",
     bytes |-> 0, retry |-> 0]

NewFileState(chunkSize) ==
    [status |-> "pending", size |-> fspec.size, chunkSize |-> chunkSize,
     chunks |-> <<>>, error |-> "", retryCount |-> 0]

\* the loop shared by InitChunks and rechunkRemaining
RECURSIVE SplitRange(_, _, _, _)
SplitRange(offset, index, size, chunkSize) ==
    IF offset >= size THEN <<>>
    ELSE LET end == Min(offset + chunkSize, size)
         IN  <<NewChunk(index, offset, end)>>
                 \o SplitRange(end, index + 1, size, chunkSize)

\* a chunk plan that is built again over the one that exists
InitChunksAgain(fs) ==
    [fs EXCEPT !.chunks = SplitRange(0, 0, fs.size, fs.chunkSize)]

\* a chunk plan without the chunk of the empty file
InitChunksNoEmpty(fs) ==
    IF Len(fs.chunks) > 0 THEN fs
    ELSE [fs EXCEPT !.chunks = SplitRange(0, 0, fs.size, fs.chunkSize)]

InitChunks(fs) ==
    IF Len(fs.chunks) > 0 THEN fs
    ELSE LET cs == SplitRange(0, 0, fs.size, fs.chunkSize)
         IN  [fs EXCEPT !.chunks =
                 IF cs = <<>> THEN <<NewChunk(0, 0, 0)>> ELSE cs]

\* a selection that leaves out the chunks marked Failed
PendingChunksNotFailed(fs) ==
    LET RECURSIVE Pend(_)
        Pend(p) == IF p > Len(fs.chunks) THEN <<>>
                   ELSE IF fs.chunks[p].status = "pending"
                        THEN <<p>> \o Pend(p + 1)
                        ELSE Pend(p + 1)
    IN  Pend(1)

\* positions (1-based) of the chunks that are not complete, in order
PendingChunks(fs) ==
    LET RECURSIVE Pend(_)
        Pend(p) == IF p > Len(fs.chunks) THEN <<>>
                   ELSE IF fs.chunks[p].status # "complete"
                        THEN <<p>> \o Pend(p + 1)
                        ELSE Pend(p + 1)
    IN  Pend(1)

\* a completion test that never holds
IsCompleteNever(fs) == FALSE

IsComplete(fs) == fs.status = "complete"

AllChunksComplete(fs) ==
    \A p \in 1..Len(fs.chunks) : fs.chunks[p].status = "complete"

bytesDownloaded(fs) ==
    SumSeq([p \in 1..Len(fs.chunks) |-> fs.chunks[p].bytes])

\* ---------------------------------------------------------------- file.go
\* n: the number of measurements in the window; cur: currentChunkSize; win:
\* the measured throughputs in bytes per second, where the specification
\* gives them (the others give the class of the window mean only)
newAdaptiveState(initialChunkSize) ==
    [n |-> 0, cur |-> initialChunkSize, win |-> <<>>]

rechunkRemaining(fs, newChunkSize) ==
    LET completedChunks == SelectSeq(fs.chunks, LAMBDA c : c.status = "complete")
        pend == PendingChunks(fs)
    IN  IF pend = <<>> THEN fs
        ELSE LET pendingStart == fs.chunks[Head(pend)].start
                 newChunks == SplitRange(pendingStart, Len(completedChunks),
                                         fs.size, newChunkSize)
             IN  [fs EXCEPT !.chunks = completedChunks \o newChunks,
                            !.chunkSize = newChunkSize]


\* clamp of recordAndAdjust for a scaling decision on a full window
Clamp(n) ==
    IF n < minAdaptiveChunkSize THEN minAdaptiveChunkSize
    ELSE IF n > maxAdaptiveChunkSize THEN maxAdaptiveChunkSize ELSE n

\* recordAndAdjust: the measured throughput is an input; with fewer than
\* adaptiveWindowSize measurements the size is kept, with a full window the
\* window mean selects x1.5 ("up"), x0.5 ("down") or no change ("keep").
recordAndAdjust(a, decision) ==
    LET n == Min(a.n + 1, adaptiveWindowSize)
    IN  IF n < adaptiveWindowSize THEN [a EXCEPT !.n = n]
        ELSE [a EXCEPT !.n = n,
                       !.cur = Clamp(CASE decision = "up" -> (a.cur * 3) \div 2
                                       [] decision = "down" -> a.cur \div 2
                                       [] OTHER -> a.cur)]

Decisions == {"up", "down", "keep"}

\* ------------------------------------------------------------ file system
FileLen(dir, index) == IF index \in DOMAIN dir THEN Len(dir[index]) ELSE 0

\* O_APPEND|O_CREATE write of bs to the part-file of chunk index
AppendPart(dir, index, bs) ==
    [i \in (DOMAIN dir) \cup {index} |->
        IF i = index
        THEN (IF index \in DOMAIN dir THEN dir[index] ELSE <<>>) \o bs
        ELSE dir[i]]

NoParts == [i \in {} |-> <<>>]

\* the paths that are written through a temp file and a rename
JsonPaths == {"manifest.json", "file_id.json"}
OutputPath == "file_name"
Paths == JsonPaths \cup {OutputPath}

\* a file as a reader sees it: which content (ver, 0 = no file), how much
\* of it is in the file (len) and how much the content has (full)
NoContent == [ver |-> 0, len |-> 0, full |-> 0]
IsWhole(f) == f.ver > 0 /\ f.len = f.full

\* file: the target paths; tmp: the temp file of the last writer of the
\* path; open: the writer holds its temp file open; n: contents so far
NoWrites ==
    [file |-> [t \in Paths |-> NoContent],
     tmp  |-> [t \in Paths |-> NoContent],
     open |-> [t \in Paths |-> FALSE],
     n    |-> [t \in Paths |-> 0]]

\* ------------------------------------------------------ process life cycle
Idle == pc = "idle"

\* the in-memory state of a process that is gone
ClearMemory ==
    /\ pc' = "idle"
    /\ fstate' = NoState
    /\ work' = <<>>
    /\ rest' = <<>>
    /\ adaptive' = NoAdaptive
    /\ opts' = NoOpts
    /\ cancelled' = FALSE
    /\ lastReq' = NoReq
    /\ merged' = FALSE

\* Run returns err to downloadFile, which fires on_done; the process exits.
Return(err) ==
    /\ ClearMemory
    /\ lastResult' = IF ~err THEN "ok"
                     ELSE IF cancelled THEN "interrupted" ELSE "err"
    /\ UNCHANGED <<fspec, cmd0, aw, ui, lastErr, orch, faults, killed>>

\* a failure that persists Failed and lets the loop go on in the same process
FailContinues ==
    /\ disk' = [fstate EXCEPT !.status = "failed", !.error = "err"]
    /\ fstate' = disk'
    /\ pc' = "loop"
    /\ work' = <<>>
    /\ rest' = <<>>
    /\ UNCHANGED <<opts, adaptive, cancelled, lastReq, lastResult, merged>>
    /\ UNCHANGED <<fspec, cmd0, aw, ui, lastErr, orch, faults, killed>>

\* a failure that sends the file back to Pending
FailResets ==
    /\ disk' = [fstate EXCEPT !.status = "pending", !.error = "err"]
    /\ Return(TRUE)

\* fd.fail(err): status Failed, error text, saveState, return err
Fail ==
    /\ disk' = [fstate EXCEPT !.status = "failed", !.error = "err"]
    /\ Return(TRUE)

\* Orchestrator.Download task for a file whose persisted state is Complete
SkipComplete ==
    /\ Idle
    /\ disk # NoState /\ IsComplete(disk)
    /\ lastResult' = "skipped"
    /\ lastReq' = NoReq
    /\ merged' = FALSE
    /\ UNCHANGED <<fspec, cmd0, aw, ui, lastErr, orch, opts, diskVars, pc, fstate, work, rest,
                   adaptive, cancelled, faults, killed>>

\* Orchestrator.downloadFile + NewFileDownload + the head of Run
StartRun(o) ==
    /\ Idle
    /\ ~(disk # NoState /\ IsComplete(disk))
    /\ opts' = o
    /\ adaptive' = IF o.adaptive THEN newAdaptiveState(o.chunkSize)
                   ELSE NoAdaptive
    /\ fstate' = IF disk # NoState THEN disk ELSE NewFileState(o.chunkSize)
    /\ pc' = "loop"
    /\ cancelled' = FALSE
    /\ lastResult' = "running"
    /\ lastReq' = NoReq
    /\ merged' = FALSE
    /\ UNCHANGED <<fspec, cmd0, aw, ui, lastErr, orch, diskVars, work, rest, faults, killed>>

\* SIGKILL / OOM: the process disappears between two steps
Kill ==
    /\ ~Idle
    /\ ClearMemory
    /\ lastResult' = "killed"
    /\ killed' = TRUE
    /\ UNCHANGED <<fspec, cmd0, aw, ui, lastErr, orch, diskVars, faults>>

\* SIGINT / SIGTERM: signalContext cancels the context
Cancel ==
    /\ ~Idle
    /\ ~cancelled
    /\ cancelled' = TRUE
    /\ UNCHANGED <<fspec, cmd0, aw, ui, lastErr, orch, opts, diskVars, pc, fstate, work, rest,
                   adaptive, lastReq, lastResult, merged, faults,
                   killed>>


\* -------------------------------------------------- FileDownload.Run loop
AtLoop == pc = "loop"

memVars == <<opts, adaptive, cancelled, lastReq, lastResult>>
histVars == <<fspec, cmd0, aw, ui, lastErr, orch, merged, faults, killed>>

\* select on ctx.Done() at the top of the loop: saveState, return ctx.Err()
LoopCancelled ==
    /\ AtLoop
    /\ cancelled
    /\ disk' = fstate
    /\ Return(TRUE)
    /\ UNCHANGED <<parts, chunkDir, outTmp, out, md5>>

\* case StatusPending, StatusChunking
LoopChunking ==
    /\ AtLoop
    /\ ~cancelled
    /\ fstate.status \in {"pending", "chunking"}
    /\ disk' = fstate
    /\ fstate' = [InitChunks(fstate) EXCEPT !.status = "downloading"]
    /\ UNCHANGED <<parts, chunkDir, outTmp, out, md5, pc, work, rest>>
    /\ UNCHANGED <<memVars, histVars>>

NewWorker ==
    [st |-> "wait", attempt |-> 0, existing |-> 0, written |-> 0,
     code |-> 0, body |-> <<>>, err |-> FALSE]

SeqToSet(s) == {s[i] : i \in 1..Len(s)}

\* the next batch of downloadChunks: every pending chunk when not adaptive,
\* the first ParallelChunks pending chunks when adaptive
BatchSize(pending) ==
    IF adaptive = NoAdaptive THEN Len(pending)
    ELSE Min(opts.parallel, Len(pending))

Dispatch(pending) ==
    /\ work' = [p \in SeqToSet(SubSeq(pending, 1, BatchSize(pending)))
                   |-> NewWorker]
    /\ rest' = SubSeq(pending, BatchSize(pending) + 1, Len(pending))
    /\ pc' = "dl"

\* case StatusDownloading: downloadChunks up to the first dispatch
LoopDownloading ==
    /\ AtLoop
    /\ ~cancelled
    /\ fstate.status = "downloading"
    /\ disk' = fstate
    /\ chunkDir' = TRUE
    /\ IF PendingChunks(fstate) = <<>>
       THEN /\ fstate' = [fstate EXCEPT !.status = "merging"]
            /\ UNCHANGED <<pc, work, rest>>
       ELSE /\ Dispatch(PendingChunks(fstate))
            /\ UNCHANGED fstate
    /\ UNCHANGED <<parts, outTmp, out, md5>>
    /\ UNCHANGED <<memVars, histVars>>

\* case StatusMerging: saveState, then MergeChunks up to the last copy
\* (MkdirAll, os.Create of <output>.tmp, appendFile of every part in chunk
\* order); a part that cannot be opened removes the temp and fails the file.
LoopMerging ==
    /\ AtLoop
    /\ ~cancelled
    /\ fstate.status = "merging"
    /\ IF \A p \in 1..Len(fstate.chunks) : fstate.chunks[p].index \in DOMAIN parts
       THEN /\ disk' = fstate
            /\ outTmp' = Concat([p \in 1..Len(fstate.chunks) |->
                                    parts[fstate.chunks[p].index]])
            /\ pc' = "rename"
            /\ UNCHANGED <<fstate, work, rest>>
            /\ UNCHANGED <<memVars, histVars>>
       ELSE /\ outTmp' = NoFile
            /\ Fail
    /\ UNCHANGED <<parts, chunkDir, out, md5>>

\* MergeChunks: Sync, Close, os.Rename(tmp, output); Run: status Verifying
MergeRename ==
    /\ pc = "rename"
    /\ out' = outTmp
    /\ outTmp' = NoFile
    /\ merged' = TRUE
    /\ fstate' = [fstate EXCEPT !.status = "verifying"]
    /\ pc' = "loop"
    /\ UNCHANGED <<disk, parts, chunkDir, md5, work, rest>>
    /\ UNCHANGED <<memVars, fspec, cmd0, aw, ui, lastErr, orch, faults, killed>>

\* a verification that only opens the file
VerifyOpens ==
    out # NoFile

\* verifyChecksum and ComputeChecksum both open the merged output
VerifyOk ==
    /\ out # NoFile
    /\ fspec.checksum => ComputeChecksum(out) = ChecksumExpected

\* case StatusVerifying: saveState, verifyChecksum, writeMD5File
LoopVerifying ==
    /\ AtLoop
    /\ ~cancelled
    /\ fstate.status = "verifying"
    /\ IF VerifyOk
       THEN /\ disk' = fstate
            /\ md5' = ComputeChecksum(out)
            /\ pc' = "complete"
            /\ UNCHANGED <<fstate, work, rest>>
            /\ UNCHANGED <<memVars, histVars>>
       ELSE /\ Fail
            /\ UNCHANGED md5
    /\ UNCHANGED <<parts, chunkDir, outTmp, out>>

\* status = Complete; CompletedAt; saveState
SaveComplete ==
    /\ pc = "complete"
    /\ fstate' = [fstate EXCEPT !.status = "complete"]
    /\ disk' = fstate'
    /\ pc' = "cleanup"
    /\ UNCHANGED <<parts, chunkDir, outTmp, out, md5, work, rest>>
    /\ UNCHANGED <<memVars, histVars>>

\* cleanup: os.RemoveAll(chunksDir); return nil
Cleanup ==
    /\ pc = "cleanup"
    /\ parts' = NoParts
    /\ chunkDir' = FALSE
    /\ Return(FALSE)
    /\ UNCHANGED <<disk, outTmp, out, md5>>

\* a budget that is never used up
retriesLeftAlways(fs) == TRUE

\* fd.fstate.RetryCount < maxFileRetries
retriesLeft(fs) == fs.retryCount < maxFileRetries

\* case StatusFailed with retries left: RetryCount++, Downloading, continue
LoopRetry ==
    /\ AtLoop
    /\ ~cancelled
    /\ fstate.status = "failed"
    /\ retriesLeft(fstate)
    /\ disk' = fstate
    /\ fstate' = [fstate EXCEPT !.retryCount = @ + 1,
                                !.status = "downloading", !.error = ""]
    /\ UNCHANGED <<parts, chunkDir, outTmp, out, md5, pc, work, rest>>
    /\ UNCHANGED <<memVars, histVars>>

\* case StatusFailed without retries left, and case StatusComplete
LoopReturn ==
    /\ AtLoop
    /\ ~cancelled
    /\ \/ fstate.status = "failed" /\ ~retriesLeft(fstate)
       \/ fstate.status = "complete"
    /\ disk' = fstate
    /\ Return(fstate.status = "failed")
    /\ UNCHANGED <<parts, chunkDir, outTmp, out, md5>>


\* ----------------------------------------- downloadChunksBatch / chunk.go
Downloading == pc = "dl"

\* the errgroup context: cancelled by the signal or by the first task error
gctxDone == cancelled \/ \E q \in DOMAIN work : work[q].st = "done" /\ work[q].err

\* workers holding a slot of sem (capacity ParallelChunks)
Running == {q \in DOMAIN work : work[q].st \in {"try", "body"}}

\* a worker that may enter attemptDownload: it holds a slot, or takes one
CanStart(p) ==
    /\ Downloading
    /\ p \in DOMAIN work
    /\ \/ work[p].st = "try"
       \/ work[p].st = "wait" /\ Cardinality(Running) < opts.parallel

Expected(c) == c.end - c.start

\* chunk.RetryCount is never reset: the model stops counting at a bound
TotalRetries(fs) == SumSeq([p \in 1..Len(fs.chunks) |-> fs.chunks[p].retry])

\* Download returned err for the chunk at position p, left as c2: the worker
\* records the throughput (err = nil, adaptive) and saves the state; e is
\* the record of the last classified error
FinishWith(p, c2, err, e) ==
    /\ lastErr' = e
    /\ fstate' = [fstate EXCEPT !.chunks[p] = c2]
    /\ disk' = fstate'
    /\ work' = [work EXCEPT ![p] = [NewWorker EXCEPT !.st = "done", !.err = err]]
    /\ IF ~err /\ adaptive # NoAdaptive
       THEN \E d \in Decisions : adaptive' = recordAndAdjust(adaptive, d)
       ELSE UNCHANGED adaptive
    /\ UNCHANGED <<opts, cancelled, lastResult, pc, rest>>
    /\ UNCHANGED <<fspec, cmd0, aw, ui, orch, merged, killed>>

Finish(p, c2, err) == FinishWith(p, c2, err, lastErr)

\* a retry loop that never gives up
moreAttemptsAlways(attempt) == TRUE

\* the loop condition after attempt++: attempt <= maxChunkRetries
moreAttempts(attempt) == attempt + 1 <= maxChunkRetries

\* a retryable error in attempt work[p].attempt: RetryCount++, ChunkFailed,
\* next attempt, or "failed after 5 retries" when the attempts are used up
RetryWith(p, e) ==
    LET c == fstate.chunks[p]
        c2 == [c EXCEPT !.retry = @ + 1, !.status = "failed"]
    IN  IF ~moreAttempts(work[p].attempt)
        THEN FinishWith(p, c2, TRUE, e)
        ELSE /\ lastErr' = e
             /\ fstate' = [fstate EXCEPT !.chunks[p] = c2]
             /\ work' = [work EXCEPT ![p] = [NewWorker EXCEPT
                            !.st = "try", !.attempt = work[p].attempt + 1]]
             /\ UNCHANGED <<disk, adaptive, opts, cancelled, lastResult, pc, rest>>
             /\ UNCHANGED <<fspec, cmd0, aw, ui, orch, merged, killed>>

Retry(p) ==
    /\ TotalRetries(fstate) < MaxChunkRetryCount
    /\ RetryWith(p, lastErr)

\* attemptDownload without a request: the zero-size chunk and the part-file
\* that already holds at least end - start bytes
ChunkFastPath(p) ==
    /\ CanStart(p)
    /\ LET c == fstate.chunks[p]
           existingSize == FileLen(parts, c.index)
       IN  IF Expected(c) = 0
           THEN /\ parts' = [i \in (DOMAIN parts) \cup {c.index} |->
                                IF i = c.index THEN <<>> ELSE parts[i]]
                /\ Finish(p, [c EXCEPT !.status = "complete", !.bytes = 0], FALSE)
           ELSE /\ existingSize >= Expected(c)
                /\ UNCHANGED parts
                /\ Finish(p, [c EXCEPT !.status = "complete",
                                       !.bytes = Expected(c)], FALSE)
    /\ UNCHANGED <<chunkDir, outTmp, out, md5, lastReq, faults>>

\* the bodies a server can answer to Range: bytes=from-(end-1) of a file of
\* the given size: the contract (206 with exactly the range), a body that
\* ends early, a body that runs past the range, and 200 with the whole file
Bodies(kind, from, end, size) ==
    CASE kind = "206" -> {SeqRange(from, end)}
      [] kind = "short" -> {SeqRange(from, e) : e \in from..(end - 1)}
      [] kind = "long" -> {SeqRange(from, end + 1)}
      [] kind = "200" -> {SeqRange(0, size)}

\* a resume that trusts bytes_downloaded of the state, not the part-file
rangeStartFromState(c, existingSize) == c.start + c.bytes

\* a resume that asks for the whole chunk again
rangeStartNoResume(c, existingSize) == c.start

rangeStart(c, existingSize) == c.start + existingSize

\* attemptDownload up to the open of the part-file: Stat, the Range request,
\* DoStreamRequest answered 200 or 206, OpenFile(O_APPEND|O_CREATE)
ChunkRequest(p, kind) ==
    /\ CanStart(p)
    /\ ~gctxDone
    /\ LET c == fstate.chunks[p]
           existingSize == FileLen(parts, c.index)
       IN  /\ Expected(c) > 0
           /\ existingSize < Expected(c)
           /\ lastReq' = [index |-> c.index, from |-> rangeStart(c, existingSize),
                          to |-> c.end - 1]
           /\ \E b \in Bodies(kind, rangeStart(c, existingSize), c.end, fstate.size) :
                 work' = [work EXCEPT ![p] = [@ EXCEPT !.st = "body",
                             !.existing = existingSize, !.written = 0,
                             !.code = IF kind = "200" THEN 200 ELSE 206,
                             !.body = b]]
           /\ parts' = AppendPart(parts, c.index, <<>>)
    /\ faults' = IF kind = "206" THEN faults ELSE faults + 1
    /\ kind # "206" => faults < MaxFaults
    /\ UNCHANGED <<disk, chunkDir, outTmp, out, md5, fstate, pc, rest,
                   adaptive, opts, cancelled, lastResult>>
    /\ UNCHANGED <<fspec, cmd0, aw, ui, lastErr, orch, merged, killed>>

\* DoStreamRequest answered with an API error: 4xx is returned at once as a
\* non-retryable error, 5xx and 429 are retried
ChunkApiError(p, retryable) ==
    /\ CanStart(p)
    /\ ~gctxDone
    /\ faults < MaxFaults
    /\ faults' = faults + 1
    /\ LET c == fstate.chunks[p]
           existingSize == FileLen(parts, c.index)
       IN  /\ Expected(c) > 0
           /\ existingSize < Expected(c)
           /\ lastReq' = [index |-> c.index, from |-> rangeStart(c, existingSize),
                          to |-> c.end - 1]
           /\ IF retryable THEN Retry(p) ELSE Finish(p, c, TRUE)
    /\ UNCHANGED <<parts, chunkDir, outTmp, out, md5>>

\* a copy loop that adds the running total to the persisted count
downloadedAccumulated(c, existingSize, written) == c.bytes + written

\* chunk.BytesDownloaded = existingSize + written
downloadedSoFar(c, existingSize, written) == existingSize + written

\* one pass of the copy loop: Read returned bytes, they are appended to the
\* part-file and BytesDownloaded = existingSize + written
ChunkWrite(p) ==
    /\ Downloading
    /\ p \in DOMAIN work
    /\ work[p].st = "body"
    /\ work[p].body # <<>>
    /\ LET c == fstate.chunks[p]
           w == work[p]
       IN  /\ parts' = AppendPart(parts, c.index, <<Head(w.body)>>)
           /\ work' = [work EXCEPT ![p] = [w EXCEPT !.written = @ + 1,
                                                   !.body = Tail(w.body)]]
           /\ fstate' = [fstate EXCEPT !.chunks[p].bytes =
                             downloadedSoFar(c, w.existing, w.written + 1)]
    /\ UNCHANGED <<disk, chunkDir, outTmp, out, md5, pc, rest>>
    /\ UNCHANGED <<memVars, histVars>>

\* Read returned io.EOF: the chunk is Complete and Download returns nil
ChunkEOF(p) ==
    /\ Downloading
    /\ p \in DOMAIN work
    /\ work[p].st = "body"
    /\ work[p].body = <<>>
    /\ Finish(p, [fstate.chunks[p] EXCEPT !.status = "complete"], FALSE)
    /\ UNCHANGED <<parts, chunkDir, outTmp, out, md5, lastReq, faults>>

\* Read returned a transport error in the middle of the body: retried
ChunkReadError(p) ==
    /\ Downloading
    /\ p \in DOMAIN work
    /\ work[p].st = "body"
    /\ ~gctxDone
    /\ faults < MaxFaults
    /\ faults' = faults + 1
    /\ Retry(p)
    /\ UNCHANGED <<parts, chunkDir, outTmp, out, md5, lastReq>>

\* a worker that removes what it wrote when it is cancelled
ChunkCancelledDiscards(p) ==
    /\ Downloading
    /\ p \in DOMAIN work
    /\ gctxDone
    /\ \/ work[p].st = "wait"
       \/ work[p].st = "try" /\ work[p].attempt > 0
       \/ work[p].st = "body"
    /\ Finish(p, fstate.chunks[p], TRUE)
    /\ parts' = [i \in DOMAIN parts |->
                    IF i = fstate.chunks[p].index THEN <<>> ELSE parts[i]]
    /\ UNCHANGED <<chunkDir, outTmp, out, md5, lastReq, faults>>

\* the worker observes the cancelled context: in the select on sem, in the
\* select of the backoff sleep, or as the error of Read (not retryable)
ChunkCancelled(p) ==
    /\ Downloading
    /\ p \in DOMAIN work
    /\ gctxDone
    /\ \/ work[p].st = "wait"
       \/ work[p].st = "try" /\ work[p].attempt > 0
       \/ work[p].st = "body"
    /\ Finish(p, fstate.chunks[p], TRUE)
    /\ UNCHANGED <<parts, chunkDir, outTmp, out, md5, lastReq, faults>>

\* the request is sent on the cancelled context: DoStreamRequest returns the
\* *url.Error of http.Client.Do, a net.Error, which isRetryableError
\* classes as retryable; the backoff select then returns ctx.Err()
ChunkRequestCancelled(p) ==
    /\ CanStart(p)
    /\ gctxDone
    /\ LET c == fstate.chunks[p]
       IN  /\ Expected(c) > 0
           /\ FileLen(parts, c.index) < Expected(c)
           /\ TotalRetries(fstate) < MaxChunkRetryCount
           /\ Finish(p, [c EXCEPT !.retry = @ + 1, !.status = "failed"], TRUE)
    /\ UNCHANGED <<parts, chunkDir, outTmp, out, md5, lastReq, faults>>

\* g.Wait() returned: downloadChunks fails the file on an error, goes on to
\* Merging when nothing is pending, and in adaptive mode rechunks the tail
\* and dispatches the next batch
BatchDone ==
    /\ Downloading
    /\ \A p \in DOMAIN work : work[p].st = "done"
    /\ IF \E p \in DOMAIN work : work[p].err
       THEN Fail
       ELSE LET rechunk == /\ adaptive # NoAdaptive
                           /\ rest # <<>>
                           /\ adaptive.cur # fstate.chunkSize
                fs2 == IF rechunk THEN rechunkRemaining(fstate, adaptive.cur)
                       ELSE fstate
                pending == IF rechunk THEN PendingChunks(fs2) ELSE rest
            IN  /\ disk' = IF rechunk THEN fs2 ELSE disk
                /\ IF pending = <<>>
                   THEN /\ fstate' = [fs2 EXCEPT !.status = "merging"]
                        /\ pc' = "loop"
                        /\ work' = <<>>
                        /\ rest' = <<>>
                   ELSE /\ fstate' = fs2
                        /\ Dispatch(pending)
                /\ UNCHANGED <<memVars, histVars>>
    /\ UNCHANGED <<parts, chunkDir, outTmp, out, md5>>


\* ---------------------------------------------------------- specifications
FileSpecs == [size : 0..MaxSize, checksum : BOOLEAN]

InitDisk ==
    /\ disk = NoState
    /\ parts = NoParts
    /\ chunkDir = FALSE
    /\ outTmp = NoFile
    /\ out = NoFile
    /\ md5 = NoDigest
    /\ aw = NoWrites

InitProcess ==
    /\ pc = "idle"
    /\ opts = NoOpts
    /\ fstate = NoState
    /\ work = <<>>
    /\ rest = <<>>
    /\ adaptive = NoAdaptive
    /\ cancelled = FALSE
    /\ lastReq = NoReq
    /\ lastResult = "none"
    /\ merged = FALSE
    /\ faults = 0
    /\ killed = FALSE
    /\ lastErr = NoErr
    /\ orch = NoOrch
    /\ ui = NoProgress

\* a fresh output directory and the command line that every run repeats
Init ==
    /\ fspec \in FileSpecs
    /\ cmd0 \in Options
    /\ InitDisk
    /\ InitProcess

StartSame == StartRun(cmd0)

RequestKinds == {"206", "short", "long", "200"}

FileSteps ==
    \/ SkipComplete
    \/ LoopChunking
    \/ LoopDownloading
    \/ LoopMerging
    \/ MergeRename
    \/ LoopVerifying
    \/ SaveComplete
    \/ Cleanup
    \/ BatchDone

ChunkSteps ==
    \/ \E p \in DOMAIN work : ChunkFastPath(p)
    \/ \E p \in DOMAIN work : ChunkRequest(p, "206")
    \/ \E p \in DOMAIN work : ChunkWrite(p)
    \/ \E p \in DOMAIN work : ChunkEOF(p)

\* the file-level retry and the workers stopped by the errgroup context
FailureSteps ==
    \/ LoopRetry
    \/ LoopReturn
    \/ \E p \in DOMAIN work : ChunkCancelled(p)
    \/ \E p \in DOMAIN work : ChunkRequestCancelled(p)

\* SIGINT / SIGTERM and the select at the top of the Run loop
SignalSteps ==
    \/ Cancel
    \/ LoopCancelled

ServerFaults ==
    \/ \E p \in DOMAIN work : \E k \in RequestKinds \ {"206"} : ChunkRequest(p, k)
    \/ \E p \in DOMAIN work : \E r \in BOOLEAN : ChunkApiError(p, r)
    \/ \E p \in DOMAIN work : ChunkReadError(p)

\* every run repeats the command; the server may break the Range contract;
\* processes end by themselves or are killed
Next ==
    \/ StartSame
    \/ FileSteps
    \/ ChunkSteps
    \/ FailureSteps
    \/ ServerFaults
    \/ Kill

Spec == Init /\ [][Next]_vars

\* every run repeats the command; the server honours every Range with 206;
\* processes end by themselves or are killed
NextResume ==
    \/ StartSame
    \/ FileSteps
    \/ ChunkSteps
    \/ Kill

SpecResume == Init /\ [][NextResume]_vars

\* every run repeats the command; the server honours every Range with 206;
\* processes end by themselves or are interrupted by SIGINT / SIGTERM
NextInterrupt ==
    \/ StartSame
    \/ FileSteps
    \/ ChunkSteps
    \/ FailureSteps
    \/ SignalSteps

SpecInterrupt == Init /\ [][NextInterrupt]_vars

\* every run repeats the command; the server may break the Range contract;
\* processes end by themselves, are interrupted by SIGINT / SIGTERM or are
\* killed
NextAny ==
    \/ Next
    \/ SignalSteps

\* a file of up to MaxSize - 1 chunks of one byte, one chunk worker at a time
InitAny ==
    /\ fspec \in [size : 0..(MaxSize - 1), checksum : BOOLEAN]
    /\ cmd0 \in [chunkSize : {1}, parallel : {1}, adaptive : BOOLEAN,
                 limiter : {NoLimiter}]
    /\ InitDisk
    /\ InitProcess

SpecAny == InitAny /\ [][NextAny]_vars

\* every run may be started with other options; the server honours every
\* Range with 206; processes end by themselves or are killed
InitOptions ==
    /\ fspec \in FileSpecs
    /\ cmd0 = NoOpts
    /\ InitDisk
    /\ InitProcess

StartAny == \E o \in Options : StartRun(o)

NextOptions ==
    \/ StartAny
    \/ FileSteps
    \/ ChunkSteps
    \/ Kill

SpecOptions == InitOptions /\ [][NextOptions]_vars

mainVars == <<fspec, cmd0, opts, disk, parts, chunkDir, outTmp, out, md5, pc,
              fstate, work, rest, adaptive, cancelled, lastReq,
              lastResult, merged, faults, killed, orch, ui>>

\* ----------------------------------------------- Orchestrator.Download
\* task 0 is the file of the variables above; the other files of the
\* manifest are tasks whose File Downloader is seen from outside only
Tasks == 0..MaxSiblings
Siblings == 1..MaxSiblings

\* st: "go" the goroutine runs up to the select, "waiting" in the select,
\* "holding" with a permit, "returned" after the deferred release, "done"
\* when the errgroup has taken the result.  blocked and late record what the
\* task found when it skipped: every permit taken, the context cancelled
NewTask(complete) ==
    [st |-> "go", complete |-> complete, res |-> "none", started |-> FALSE,
     saved |-> FALSE, blocked |-> FALSE, late |-> FALSE]

Holding == {t \in Tasks : orch.task[t].st = "holding"}

\* a permit that stays taken when the task that held it has returned
permitFreeLeaky(o) ==
    Cardinality({t \in Tasks :
                    \/ o.task[t].st = "holding"
                    \/ o.task[t].started /\ o.task[t].st \in {"returned", "done"}})
        < o.parallelFiles

\* a permit that is handed out whatever the number of holders
permitFreeAlways(o) == TRUE

\* sem <- struct{}{} can proceed: the buffer of ParallelFiles is not full
permitFree(o) ==
    Cardinality({t \in Tasks : o.task[t].st = "holding"}) < o.parallelFiles

\* a task that never looks at the state before the select
completeBeforePermitNever(t) == FALSE

\* existing != nil && existing.IsComplete(), before the select
completeBeforePermit(t) ==
    IF t = 0 THEN disk # NoState /\ IsComplete(disk)
    ELSE orch.task[t].complete

detailVars == <<fspec, cmd0, opts, disk, parts, chunkDir, outTmp, out, md5, pc,
                fstate, work, rest, adaptive, cancelled, lastReq,
                lastResult, merged, faults, killed, aw, lastErr, ui>>

\* the goroutine of a file up to the select: skip a Complete file, else
\* go and wait for a permit
OrchCheck(t) ==
    /\ orch.task[t].st = "go"
    /\ IF completeBeforePermit(t)
       THEN orch' = [orch EXCEPT !.task[t] = [@ EXCEPT
                        !.st = "done", !.res = "skip",
                        !.blocked = ~permitFree(orch),
                        !.late = orch.ctxDone]]
       ELSE orch' = [orch EXCEPT !.task[t].st = "waiting"]
    /\ UNCHANGED detailVars

\* select: case sem <- struct{}{}
OrchAcquire(t) ==
    /\ orch.task[t].st = "waiting"
    /\ permitFree(orch)
    /\ orch' = [orch EXCEPT !.task[t].st = "holding"]
    /\ UNCHANGED detailVars

\* select: case <-ctx.Done(): return ctx.Err()
OrchWaitCancelled(t) ==
    /\ orch.task[t].st = "waiting"
    /\ orch.ctxDone
    /\ orch' = [orch EXCEPT !.task[t] = [@ EXCEPT !.st = "returned", !.res = "ctx"]]
    /\ UNCHANGED detailVars

\* downloadFile of another file: the second look at the state, on_start
SiblingStart(t) ==
    /\ t \in Siblings
    /\ orch.task[t].st = "holding"
    /\ ~orch.task[t].started
    /\ IF orch.task[t].complete
       THEN orch' = [orch EXCEPT !.task[t] = [@ EXCEPT !.st = "returned", !.res = "skip"]]
       ELSE orch' = [orch EXCEPT !.task[t].started = TRUE]
    /\ UNCHANGED detailVars

\* Run of another file returns: nil after Complete was saved, an error after
\* fd.fail saved Failed, or ctx.Err() after the cancelled context was seen
\* and the state was saved
SiblingReturn(t, res) ==
    /\ t \in Siblings
    /\ orch.task[t].st = "holding"
    /\ orch.task[t].started
    /\ res = "ctx" => orch.ctxDone
    /\ orch' = [orch EXCEPT !.task[t] = [@ EXCEPT
                     !.st = "returned", !.res = res, !.saved = TRUE,
                     !.complete = (res = "nil")]]
    /\ UNCHANGED detailVars

\* the context of the File Downloader is the errgroup context
Synced == orch.ctxDone => (Idle \/ cancelled)

\* downloadFile of task 0
DetailStart ==
    /\ orch.task[0].st = "holding"
    /\ lastResult = "none"
    /\ StartSame

DetailCancel ==
    /\ orch.ctxDone
    /\ Cancel

\* Run of task 0, one run from a fresh state
DetailSteps ==
    /\ Synced
    /\ \/ LoopChunking
       \/ LoopDownloading
       \/ LoopMerging
       \/ MergeRename
       \/ LoopVerifying
       \/ SaveComplete
       \/ Cleanup
       \/ BatchDone
       \/ ChunkSteps
       \/ \E p \in DOMAIN work : ChunkCancelled(p)
       \/ \E p \in DOMAIN work : ChunkRequestCancelled(p)
       \/ LoopCancelled

\* Run of task 0 returned and on_done fired
DetailReturn ==
    /\ orch.task[0].st = "holding"
    /\ Idle
    /\ lastResult \in {"ok", "err", "interrupted"}
    /\ orch' = [orch EXCEPT !.task[0] = [@ EXCEPT
                     !.st = "returned",
                     !.started = TRUE,
                     !.saved = disk # NoState,
                     !.res = CASE lastResult = "ok" -> "nil"
                               [] lastResult = "err" -> "error"
                               [] lastResult = "interrupted" -> "ctx"]]
    /\ UNCHANGED detailVars

\* the errgroup takes the result of a returned task: the first error is
\* kept and cancels the context
GroupSettle(t) ==
    /\ orch.task[t].st = "returned"
    /\ LET first == orch.task[t].res \in {"error", "ctx"} /\ orch.err = "none"
       IN  orch' = [orch EXCEPT
                       !.task[t].st = "done",
                       !.err = IF first THEN orch.task[t].res ELSE @,
                       !.ctxDone = IF first THEN TRUE ELSE @]
    /\ UNCHANGED detailVars

\* g.Wait() returns the error that was kept
GroupWait ==
    /\ orch.result = "pending"
    /\ \A t \in Tasks : orch.task[t].st = "done"
    /\ orch' = [orch EXCEPT !.result = orch.err, !.ctxDone = TRUE]
    /\ UNCHANGED detailVars

\* a fresh file of 1-byte chunks, and other files of which the first few
\* are Complete on disk
InitOrch ==
    /\ fspec \in [size : 1..MaxSize, checksum : {FALSE}]
    /\ cmd0 \in [chunkSize : {1}, parallel : 1..MaxParallel, adaptive : BOOLEAN,
                 limiter : {NoLimiter}]
    /\ InitDisk
    /\ pc = "idle"
    /\ opts = NoOpts
    /\ fstate = NoState
    /\ work = <<>>
    /\ rest = <<>>
    /\ adaptive = NoAdaptive
    /\ cancelled = FALSE
    /\ lastReq = NoReq
    /\ lastResult = "none"
    /\ merged = FALSE
    /\ faults = 0
    /\ killed = FALSE
    /\ lastErr = NoErr
    /\ ui = NoProgress
    /\ \E n \in 1..MaxParallelFiles : \E k \in 0..MaxSiblings :
          orch = [parallelFiles |-> n,
                  task |-> [t \in Tasks |-> NewTask(t \in 1..k)],
                  ctxDone |-> FALSE, err |-> "none", result |-> "pending"]

NextOrch ==
    \/ \E t \in Tasks : OrchCheck(t)
    \/ \E t \in Tasks : OrchAcquire(t)
    \/ \E t \in Tasks : OrchWaitCancelled(t)
    \/ \E t \in Siblings : SiblingStart(t)
    \/ \E t \in Siblings : \E res \in {"nil", "error", "ctx"} : SiblingReturn(t, res)
    \/ DetailStart
    \/ DetailCancel
    \/ DetailSteps
    \/ DetailReturn
    \/ \E t \in Tasks : GroupSettle(t)
    \/ GroupWait

SpecOrch == InitOrch /\ [][NextOrch]_vars

\* ------------------------------------------------- errors of an attempt
\* an error is the chain that errors.As and errors.Is walk, outermost first
ErrNode(t) == [t |-> t, status |-> 0]
APIError(status) == [t |-> "APIError", status |-> status]

\* the types with Timeout() and Temporary(), which errors.As takes for a
\* net.Error: *url.Error, *net.OpError, syscall.Errno and the type of
\* context.DeadlineExceeded
implementsNetError(n) ==
    n.t \in {"UrlError", "OpError", "Errno", "DeadlineExceeded"}

AsNetError(chain) ==
    \E i \in 1..Len(chain) : implementsNetError(chain[i])

IsContextError(chain) ==
    \E i \in 1..Len(chain) : chain[i].t \in {"Canceled", "DeadlineExceeded"}

AsAPIError(chain) ==
    \E i \in 1..Len(chain) : chain[i].t = "APIError"

FirstAPIError(chain) ==
    chain[CHOOSE i \in 1..Len(chain) :
              /\ chain[i].t = "APIError"
              /\ \A j \in 1..(i - 1) : chain[j].t # "APIError"]

IsRetryable(e) == e.status = 429 \/ e.status >= 500

isRetryableError(chain) ==
    IF chain = <<>> THEN FALSE
    ELSE IF AsNetError(chain) THEN TRUE
    ELSE IF IsContextError(chain) THEN FALSE
    ELSE IF AsAPIError(chain) THEN IsRetryable(FirstAPIError(chain))
    ELSE TRUE

Classed(p, chain) ==
    [pos |-> p, chain |-> chain, retried |-> isRetryableError(chain)]

\* the errors of DoStreamRequest: an API error for a status other than 200
\* and 206, and the wrapped *url.Error of a refused or timed-out dial
RequestErrors ==
    {<<APIError(st)>> : st \in {404, 429, 503}}
    \cup {<<ErrNode("Wrap"), ErrNode("UrlError"), ErrNode("OpError"),
            ErrNode(leaf)>> : leaf \in {"Errno", "DeadlineExceeded"}}

\* MkdirAll (wrapped), OpenFile and Write fail with a *PathError that wraps
\* the errno: disk full, permission denied
OpenErrors ==
    {<<ErrNode("Wrap"), ErrNode("PathError"), ErrNode("Errno")>>,
     <<ErrNode("PathError"), ErrNode("Errno")>>}

WriteErrors == {<<ErrNode("PathError"), ErrNode("Errno")>>}

\* Read fails: connection reset, unexpected EOF
ReadErrors ==
    {<<ErrNode("OpError"), ErrNode("Errno")>>, <<ErrNode("Plain")>>}

LocalErrors == OpenErrors \cup WriteErrors

\* Download after attemptDownload returned the error e
AfterError(p, e) ==
    IF isRetryableError(e)
    THEN RetryWith(p, Classed(p, e))
    ELSE FinishWith(p, fstate.chunks[p], TRUE, Classed(p, e))

\* attemptDownload fails before the copy loop
ChunkRequestFails(p, e) ==
    /\ CanStart(p)
    /\ ~gctxDone
    /\ faults < MaxRetryFaults
    /\ faults' = faults + 1
    /\ e \in RequestErrors \cup OpenErrors
    /\ LET c == fstate.chunks[p]
           existingSize == FileLen(parts, c.index)
       IN  /\ Expected(c) > 0
           /\ existingSize < Expected(c)
           /\ lastReq' = [index |-> c.index, from |-> rangeStart(c, existingSize),
                          to |-> c.end - 1]
    /\ AfterError(p, e)
    /\ UNCHANGED <<parts, chunkDir, outTmp, out, md5>>

\* attemptDownload fails in the copy loop, in Read or in Write
ChunkBodyFails(p, e) ==
    /\ Downloading
    /\ p \in DOMAIN work
    /\ work[p].st = "body"
    /\ ~gctxDone
    /\ faults < MaxRetryFaults
    /\ faults' = faults + 1
    /\ e \in ReadErrors \cup WriteErrors
    /\ AfterError(p, e)
    /\ UNCHANGED <<parts, chunkDir, outTmp, out, md5, lastReq>>

AttemptFails ==
    \/ \E p \in DOMAIN work : \E e \in RequestErrors \cup OpenErrors :
           ChunkRequestFails(p, e)
    \/ \E p \in DOMAIN work : \E e \in ReadErrors \cup WriteErrors :
           ChunkBodyFails(p, e)

\* the workers of the batch that see the errgroup context cancelled by the
\* first error
SiblingCancelled ==
    \E p \in DOMAIN work : ChunkCancelled(p)

NextRetry ==
    \/ StartSame
    \/ FileSteps
    \/ ChunkSteps
    \/ AttemptFails
    \/ SiblingCancelled
    \/ LoopRetry
    \/ LoopReturn

\* a file of one or two chunks, dispatched without adaptive chunk sizes
InitRetry ==
    /\ fspec \in [size : 1..2, checksum : {FALSE}]
    /\ cmd0 \in [chunkSize : {1}, parallel : 1..MaxParallel, adaptive : {FALSE},
                 limiter : {NoLimiter}]
    /\ InitDisk
    /\ InitProcess

SpecRetry == InitRetry /\ [][NextRetry]_vars

\* a byte that the source does not hold at any offset
BadByte == fspec.size

\* the part-file of a completed chunk is damaged on disk before the merge
CorruptPart ==
    /\ pc \in {"dl", "loop"}
    /\ fstate.status = "downloading"
    /\ faults < MaxFaults
    /\ faults' = faults + 1
    /\ \E p \in 1..Len(fstate.chunks) :
          LET c == fstate.chunks[p]
          IN  /\ c.status = "complete"
              /\ c.index \in DOMAIN parts
              /\ Len(parts[c.index]) > 0
              /\ parts' = [parts EXCEPT ![c.index] = <<BadByte>> \o Tail(@)]
    /\ UNCHANGED <<fspec, cmd0, aw, ui, lastErr, orch, merged, killed>>
    /\ UNCHANGED <<disk, chunkDir, outTmp, out, md5, pc, fstate, work, rest>>
    /\ UNCHANGED memVars

NextCorrupt ==
    \/ StartSame
    \/ FileSteps
    \/ ChunkSteps
    \/ CorruptPart
    \/ LoopRetry
    \/ LoopReturn

SpecCorrupt == Init /\ [][NextCorrupt]_vars

\* isRetryableError applied to every chain of wrappers that ends in a leaf
Wrappers == {"Wrap", "UrlError", "OpError", "PathError"}
Leaves ==
    {ErrNode(t) : t \in {"Canceled", "DeadlineExceeded", "Errno", "Plain",
                         "UrlError", "OpError"}}
    \cup {APIError(st) : st \in {400, 401, 404, 416, 429, 500, 503}}

RECURSIVE Chains(_)
Chains(n) ==
    IF n = 1 THEN {<<l>> : l \in Leaves}
    ELSE Chains(n - 1) \cup
         {<<ErrNode(w)>> \o c : w \in Wrappers, c \in Chains(n - 1)}

Classify(chain) ==
    /\ lastErr = NoErr
    /\ lastErr' = Classed(0, chain)
    /\ UNCHANGED <<mainVars, aw>>

InitClassify ==
    /\ fspec = [size |-> 0, checksum |-> FALSE]
    /\ cmd0 = NoOpts
    /\ InitDisk
    /\ InitProcess

NextClassify == \E chain \in Chains(MaxChainLen) : Classify(chain)

SpecClassify == InitClassify /\ [][NextClassify]_vars

\* ------------------------------------------------ adaptive chunk sizing
\* Here the file is counted in bytes of its real size and a chunk download
\* is one step that ends with a measured throughput; the bytes of the
\* part-files are not represented.
MiB == 1048576
highThroughputMBps == 50
lowThroughputMBps == 10

\* a.measurements after the append and the cut to the last
\* adaptiveWindowSize entries
measurements(a, bps) ==
    LET w == Append(a.win, bps)
    IN  IF Len(w) > adaptiveWindowSize
        THEN SubSeq(w, Len(w) - adaptiveWindowSize + 1, Len(w))
        ELSE w

\* avgMBps of a window against the two thresholds:
\* (total / len) / (1024 * 1024) > 50.0, < 10.0
WindowClass(win) ==
    IF SumSeq(win) > highThroughputMBps * MiB * Len(win) THEN "up"
    ELSE IF SumSeq(win) < lowThroughputMBps * MiB * Len(win) THEN "down"
    ELSE "keep"

\* measured throughputs in bytes per second, slow and fast: the mean of a
\* window is below 10, between the thresholds (two slow and one fast) or
\* above 50
Throughputs == {3 * MiB, 96 * MiB}

\* the worker of chunk p: Download returned nil after elapsed time,
\* recordAndAdjust(chunkBytes, elapsed) with chunkBytes / elapsed = bps,
\* saveState
ChunkDownloaded(p, bps) ==
    /\ CanStart(p)
    /\ ~gctxDone
    /\ adaptive # NoAdaptive
    /\ LET c == fstate.chunks[p]
           win2 == measurements(adaptive, bps)
       IN  /\ fstate' = [fstate EXCEPT !.chunks[p] =
                            [c EXCEPT !.status = "complete",
                                      !.bytes = Expected(c)]]
           /\ disk' = fstate'
           /\ work' = [work EXCEPT ![p] = [NewWorker EXCEPT !.st = "done"]]
           /\ adaptive' = [recordAndAdjust(adaptive, WindowClass(win2))
                              EXCEPT !.win = win2]
    /\ UNCHANGED <<parts, chunkDir, outTmp, out, md5, pc, rest>>
    /\ UNCHANGED <<opts, cancelled, lastReq, lastResult>>
    /\ UNCHANGED histVars

\* --chunk-size below the adaptive range, inside it, and the default
InitialChunkSizes == {4 * MiB, 16 * MiB, 64 * MiB}

\* adaptive runs of one command on a file of up to MaxPlanChunks chunks,
\* with at most one crash
InitAdaptive ==
    /\ cmd0 \in [chunkSize : InitialChunkSizes, parallel : 1..MaxParallel,
                 adaptive : {TRUE}, limiter : {NoLimiter}]
    /\ \E k \in 1..MaxPlanChunks :
          fspec = [size |-> k * cmd0.chunkSize, checksum |-> FALSE]
    /\ InitDisk
    /\ InitProcess

NextAdaptive ==
    \/ StartSame
    \/ LoopChunking
    \/ LoopDownloading
    \/ \E p \in DOMAIN work : \E bps \in Throughputs : ChunkDownloaded(p, bps)
    \/ BatchDone
    \/ ~killed /\ Kill

SpecAdaptive == InitAdaptive /\ [][NextAdaptive]_vars

\* ------------------------------------------------------- the clean command
\* `egafetch clean`, run while no download runs: os.RemoveAll of the whole
\* chunks directory, then DeleteFileState of every state that is Complete
Clean ==
    /\ Idle
    /\ lastResult # "none"
    /\ parts' = NoParts
    /\ chunkDir' = FALSE
    /\ disk' = IF disk # NoState /\ disk.status = "complete" THEN NoState
               ELSE disk
    /\ lastResult' = "cleaned"
    /\ UNCHANGED <<fspec, cmd0, aw, ui, lastErr, orch, opts, outTmp, out, md5, pc,
                   fstate, work, rest, adaptive, cancelled, lastReq, merged,
                   faults, killed>>

\* every run repeats the command; the server honours every Range with 206;
\* processes end by themselves or are killed; clean is run between runs
NextClean ==
    \/ StartSame
    \/ FileSteps
    \/ ChunkSteps
    \/ LoopRetry
    \/ LoopReturn
    \/ Kill
    \/ Clean

SpecClean == Init /\ [][NextClean]_vars

\* ------------------------------------------------------ bandwidth shaping
\* a download job whose options carry a limiter of 1 byte per second
InitLimited ==
    /\ fspec \in FileSpecs
    /\ cmd0 \in [chunkSize : 1..MaxChunkSize, parallel : 1..MaxParallel,
                 adaptive : BOOLEAN, limiter : {[limit |-> 1, taken |-> 0]}]
    /\ InitDisk
    /\ InitProcess

\* the server honours every Range with 206; the process ends by itself
NextLimited ==
    \/ StartSame
    \/ FileSteps
    \/ ChunkSteps

SpecLimited == InitLimited /\ [][NextLimited]_vars

\* the bytes in the part-files of the running job
BytesWritten ==
    SumSeq([p \in 1..Len(fstate.chunks) |->
               FileLen(parts, fstate.chunks[p].index)])

\* ------------------------------------------- temp file and rename, in steps
\* one process writes one file at a time
NoWriter == \A t \in Paths : ~aw.open[t]

\* os.CreateTemp(dir, ".tmp-*") and os.Create(outputPath + ".tmp"): a new,
\* empty file that is not the target path
CreateStep(a, t, full) ==
    [a EXCEPT !.tmp[t] = [ver |-> a.n[t] + 1, len |-> 0, full |-> full],
              !.open[t] = TRUE,
              !.n[t] = @ + 1]

\* a writer that writes to the target path itself
WriteStepInPlace(a, t) ==
    [a EXCEPT !.tmp[t].len = @ + 1,
              !.file[t] = [a.tmp[t] EXCEPT !.len = @ + 1]]

\* tmpFile.Write / io.Copy(dst, src): the next piece goes to the temp file
WriteStep(a, t) ==
    [a EXCEPT !.tmp[t].len = @ + 1]

\* the deferred os.Remove(tmpPath) of a writer that did not succeed
RemoveStep(a, t) ==
    [a EXCEPT !.tmp[t] = NoContent, !.open[t] = FALSE]

\* os.Rename(tmpPath, path) replaces the target in one step
RenameStep(a, t) ==
    [a EXCEPT !.file[t] = a.tmp[t], !.tmp[t] = NoContent, !.open[t] = FALSE]

AwCreateTemp(t) ==
    /\ NoWriter
    /\ aw.n[t] < MaxVersions
    /\ \E full \in 1..MaxDataLen : aw' = CreateStep(aw, t, full)
    /\ UNCHANGED <<mainVars, lastErr>>

AwWrite(t) ==
    /\ aw.open[t]
    /\ aw.tmp[t].len < aw.tmp[t].full
    /\ aw' = WriteStep(aw, t)
    /\ UNCHANGED <<mainVars, lastErr>>

\* Write, Sync, Close or Chmod returns an error
AwError(t) ==
    /\ aw.open[t]
    /\ aw' = RemoveStep(aw, t)
    /\ UNCHANGED <<mainVars, lastErr>>

\* Sync, Close, Chmod, Rename after the whole of data is written
AwRename(t) ==
    /\ aw.open[t]
    /\ aw.tmp[t].len = aw.tmp[t].full
    /\ aw' = RenameStep(aw, t)
    /\ UNCHANGED <<mainVars, lastErr>>

\* MergeChunks: os.Create truncates what an earlier process left behind
MergeCreate ==
    /\ NoWriter
    /\ aw.n[OutputPath] < MaxVersions
    /\ \E full \in 1..MaxDataLen : aw' = CreateStep(aw, OutputPath, full)
    /\ UNCHANGED <<mainVars, lastErr>>

\* appendFile of the next part-file
MergeAppend ==
    /\ aw.open[OutputPath]
    /\ aw.tmp[OutputPath].len < aw.tmp[OutputPath].full
    /\ aw' = WriteStep(aw, OutputPath)
    /\ UNCHANGED <<mainVars, lastErr>>

\* appendFile, Sync or Close returns an error
MergeError ==
    /\ aw.open[OutputPath]
    /\ aw' = RemoveStep(aw, OutputPath)
    /\ UNCHANGED <<mainVars, lastErr>>

MergeRenameOutput ==
    /\ aw.open[OutputPath]
    /\ aw.tmp[OutputPath].len = aw.tmp[OutputPath].full
    /\ aw' = RenameStep(aw, OutputPath)
    /\ UNCHANGED <<mainVars, lastErr>>

\* the process dies inside a write: the temp file stays as it is
AwCrash ==
    /\ ~NoWriter
    /\ aw' = [aw EXCEPT !.open = [t \in Paths |-> FALSE]]
    /\ UNCHANGED <<mainVars, lastErr>>

InitAtomic ==
    /\ fspec = [size |-> 0, checksum |-> FALSE]
    /\ cmd0 = NoOpts
    /\ InitDisk
    /\ InitProcess

NextAtomic ==
    \/ \E t \in JsonPaths : AwCreateTemp(t)
    \/ \E t \in JsonPaths : AwWrite(t)
    \/ \E t \in JsonPaths : AwError(t)
    \/ \E t \in JsonPaths : AwRename(t)
    \/ MergeCreate
    \/ MergeAppend
    \/ MergeError
    \/ MergeRenameOutput
    \/ AwCrash

SpecAtomic == InitAtomic /\ [][NextAtomic]_vars


\* ------------------------------------------------------ saveState, in steps
\* the worker goroutines of a batch after dl.Download returned: the worker
\* waits for fd.mu, marshals fd.fstate (the snapshot), writes the temp file
\* and renames it over <file_id>.json, unlocks and returns

\* a lock that is never held
muFreeAlways == TRUE

\* fd.mu is held by the worker that is inside its saveState
muFree == \A q \in DOMAIN work : work[q].st # "saving"

\* a worker between json.MarshalIndent and os.Rename, with its snapshot
SavingWorker(snap, err) ==
    [st |-> "saving", attempt |-> 0, existing |-> 0, written |-> 0,
     code |-> 0, body |-> <<>>, err |-> err, snap |-> snap]

\* workers that hold a slot of sem: from the select to the return
SlotHeld == {q \in DOMAIN work : work[q].st \in {"returned", "saving"}}

\* dl.Download returned for the chunk at position p: nil with the chunk
\* Complete and its part-file written, or an error that is not retried; the
\* throughput of a success is recorded before the lock is taken
DownloadReturns(p, ok) ==
    /\ Downloading
    /\ p \in DOMAIN work
    /\ work[p].st = "wait"
    /\ ~gctxDone
    /\ Cardinality(SlotHeld) < opts.parallel
    /\ LET c == fstate.chunks[p]
       IN  IF ok
           THEN /\ fstate' = [fstate EXCEPT !.chunks[p] =
                                 [c EXCEPT !.status = "complete",
                                           !.bytes = Expected(c)]]
                /\ parts' = [i \in (DOMAIN parts) \cup {c.index} |->
                                IF i = c.index THEN SeqRange(c.start, c.end)
                                ELSE parts[i]]
                /\ IF adaptive # NoAdaptive
                   THEN \E d \in Decisions :
                           adaptive' = recordAndAdjust(adaptive, d)
                   ELSE UNCHANGED adaptive
           ELSE UNCHANGED <<fstate, parts, adaptive>>
    /\ work' = [work EXCEPT ![p] = [NewWorker EXCEPT !.st = "returned",
                                                     !.err = ~ok]]
    /\ UNCHANGED <<disk, chunkDir, outTmp, out, md5, pc, rest>>
    /\ UNCHANGED <<opts, cancelled, lastReq, lastResult>>
    /\ UNCHANGED histVars

\* the select on sem returns ctx.Err(): the worker returns without a save
WorkerCancelled(p) ==
    /\ Downloading
    /\ p \in DOMAIN work
    /\ work[p].st = "wait"
    /\ gctxDone
    /\ work' = [work EXCEPT ![p] = [NewWorker EXCEPT !.st = "done",
                                                     !.err = TRUE]]
    /\ UNCHANGED <<diskVars, pc, fstate, rest, adaptive>>
    /\ UNCHANGED <<opts, cancelled, lastReq, lastResult>>
    /\ UNCHANGED histVars

\* fd.mu.Lock(); saveState up to json.MarshalIndent(fs)
SaveBegin(p) ==
    /\ Downloading
    /\ p \in DOMAIN work
    /\ work[p].st = "returned"
    /\ muFree
    /\ work' = [work EXCEPT ![p] = SavingWorker(fstate, work[p].err)]
    /\ UNCHANGED <<diskVars, pc, fstate, rest, adaptive>>
    /\ UNCHANGED <<opts, cancelled, lastReq, lastResult>>
    /\ UNCHANGED histVars

\* os.Rename of the temp file; fd.mu.Unlock(); return err
SaveEnd(p) ==
    /\ Downloading
    /\ p \in DOMAIN work
    /\ work[p].st = "saving"
    /\ disk' = work[p].snap
    /\ work' = [work EXCEPT ![p] = [NewWorker EXCEPT !.st = "done",
                                                     !.err = work[p].err]]
    /\ UNCHANGED <<parts, chunkDir, outTmp, out, md5, pc, fstate, rest, adaptive>>
    /\ UNCHANGED <<opts, cancelled, lastReq, lastResult>>
    /\ UNCHANGED histVars

\* files of up to MaxSize chunks of one byte
InitSaves ==
    /\ fspec \in FileSpecs
    /\ cmd0 \in [chunkSize : {1}, parallel : 1..MaxParallel,
                 adaptive : BOOLEAN, limiter : {NoLimiter}]
    /\ InitDisk
    /\ InitProcess

\* every run repeats the command; a download succeeds or fails as a whole;
\* processes end by themselves, are interrupted or are killed
NextSaves ==
    \/ StartSame
    \/ FileSteps
    \/ \E p \in DOMAIN work : \E ok \in BOOLEAN : DownloadReturns(p, ok)
    \/ \E p \in DOMAIN work : WorkerCancelled(p)
    \/ \E p \in DOMAIN work : SaveBegin(p)
    \/ \E p \in DOMAIN work : SaveEnd(p)
    \/ LoopRetry
    \/ LoopReturn
    \/ SignalSteps
    \/ Kill

SpecSaves == InitSaves /\ [][NextSaves]_vars


\* ------------------------------------------- json.MarshalIndent, in steps
\* the marshal of saveState reads fd.fstate chunk by chunk while the other
\* workers of the batch go on writing their ChunkState: chunk.go holds no
\* lock, so a read and a write of one field may come in either order

\* the chunks the marshal of worker p has read so far
Marshalled(p) == Len(work[p].snap.chunks)

\* fd.mu.Lock(); MarshalIndent has read the fields of the FileState itself
MarshalBegin(p) ==
    /\ Downloading
    /\ p \in DOMAIN work
    /\ work[p].st = "returned"
    /\ muFree
    /\ work' = [work EXCEPT ![p] =
                   SavingWorker([fstate EXCEPT !.chunks = <<>>], work[p].err)]
    /\ UNCHANGED <<diskVars, pc, fstate, rest, adaptive>>
    /\ UNCHANGED <<opts, cancelled, lastReq, lastResult>>
    /\ UNCHANGED histVars

\* MarshalIndent reads the next element of fs.Chunks
MarshalChunk(p) ==
    /\ Downloading
    /\ p \in DOMAIN work
    /\ work[p].st = "saving"
    /\ Marshalled(p) < Len(fstate.chunks)
    /\ work' = [work EXCEPT ![p].snap.chunks =
                   Append(@, fstate.chunks[Marshalled(p) + 1])]
    /\ UNCHANGED <<diskVars, pc, fstate, rest, adaptive>>
    /\ UNCHANGED <<opts, cancelled, lastReq, lastResult>>
    /\ UNCHANGED histVars

\* the whole state is marshalled: temp file, rename, unlock
MarshalledSaveEnd(p) ==
    /\ p \in DOMAIN work
    /\ work[p].st = "saving"
    /\ Marshalled(p) = Len(fstate.chunks)
    /\ SaveEnd(p)

\* every run repeats the command; a download succeeds or fails as a whole;
\* processes end by themselves or are killed
NextMarshal ==
    \/ StartSame
    \/ FileSteps
    \/ \E p \in DOMAIN work : \E ok \in BOOLEAN : DownloadReturns(p, ok)
    \/ \E p \in DOMAIN work : WorkerCancelled(p)
    \/ \E p \in DOMAIN work : MarshalBegin(p)
    \/ \E p \in DOMAIN work : MarshalChunk(p)
    \/ \E p \in DOMAIN work : MarshalledSaveEnd(p)
    \/ LoopRetry
    \/ LoopReturn
    \/ Kill

SpecMarshal == InitSaves /\ [][NextMarshal]_vars


\* ------------------------------------------------- onBytes and onProgress
\* the callback of a ChunkDownloader: under fd.mu it adds n to
\* fd.liveBytesSoFar and copies the total; after the unlock it hands the
\* copy to fd.onProgress

\* one pass of the copy loop with the locked part of onBytes
ProgressWrite(p) ==
    /\ Downloading
    /\ p \in DOMAIN work
    /\ work[p].st = "body"
    /\ work[p].body # <<>>
    /\ p \notin DOMAIN ui.calls
    /\ LET c == fstate.chunks[p]
           w == work[p]
       IN  /\ parts' = AppendPart(parts, c.index, <<Head(w.body)>>)
           /\ work' = [work EXCEPT ![p] = [w EXCEPT !.written = @ + 1,
                                                   !.body = Tail(w.body)]]
           /\ fstate' = [fstate EXCEPT !.chunks[p].bytes =
                             downloadedSoFar(c, w.existing, w.written + 1)]
    /\ ui' = [ui EXCEPT !.live = @ + 1,
                        !.calls = [q \in (DOMAIN ui.calls) \cup {p} |->
                                      IF q = p
                                      THEN [cur |-> ui.live + 1, st |-> "ready"]
                                      ELSE ui.calls[q]]]
    /\ UNCHANGED <<disk, chunkDir, outTmp, out, md5, pc, rest>>
    /\ UNCHANGED <<memVars, fspec, cmd0, aw, lastErr, orch, merged, faults, killed>>

\* fd.onProgress(fileID, current, size) is entered
ProgressCall(p) ==
    /\ p \in DOMAIN ui.calls
    /\ ui.calls[p].st = "ready"
    /\ ui' = [ui EXCEPT !.calls[p].st = "running", !.last = ui.calls[p].cur]
    /\ UNCHANGED <<diskVars, pc, fstate, work, rest>>
    /\ UNCHANGED <<memVars, fspec, cmd0, aw, lastErr, orch, merged, faults, killed>>

\* fd.onProgress returns, and onBytes with it
ProgressReturn(p) ==
    /\ p \in DOMAIN ui.calls
    /\ ui.calls[p].st = "running"
    /\ ui' = [ui EXCEPT !.calls = [q \in (DOMAIN ui.calls) \ {p} |-> ui.calls[q]]]
    /\ UNCHANGED <<diskVars, pc, fstate, work, rest>>
    /\ UNCHANGED <<memVars, fspec, cmd0, aw, lastErr, orch, merged, faults, killed>>

\* Read returns io.EOF after the last callback has returned
ProgressEOF(p) ==
    /\ p \notin DOMAIN ui.calls
    /\ ChunkEOF(p)

\* one run on a fresh directory; the server honours every Range with 206
NextProgress ==
    \/ StartSame
    \/ FileSteps
    \/ \E p \in DOMAIN work : ChunkFastPath(p)
    \/ \E p \in DOMAIN work : ChunkRequest(p, "206")
    \/ \E p \in DOMAIN work : ProgressWrite(p)
    \/ \E p \in DOMAIN work : ProgressCall(p)
    \/ \E p \in DOMAIN work : ProgressReturn(p)
    \/ \E p \in DOMAIN work : ProgressEOF(p)

SpecProgress == Init /\ [][NextProgress]_vars


\* ------------------------------------------ resolveManifest, duplicates
\* the identifiers of the command line: the dataset, and two files of which
\* the first belongs to the dataset
Identifiers == {"EGAD", "EGAF1", "EGAF2"}
DatasetFiles == <<1>>

\* resolveManifest: the files of every argument are appended in turn
RECURSIVE resolveManifest(_)
resolveManifest(args) ==
    IF args = <<>> THEN <<>>
    ELSE (CASE Head(args) = "EGAD" -> DatasetFiles
            [] Head(args) = "EGAF1" -> <<1>>
            [] Head(args) = "EGAF2" -> <<2>>) \o resolveManifest(Tail(args))

\* the command lines whose manifest has MaxSiblings entries
ArgLists ==
    {a \in UNION {[1..n -> Identifiers] : n \in 1..MaxSiblings} :
        Len(resolveManifest(a)) = MaxSiblings}

\* the File Downloaders that run for file id
RunningFor(id) ==
    {t \in Siblings : /\ orch.task[t].id = id
                      /\ orch.task[t].st = "holding"
                      /\ orch.task[t].started}

\* Run returns: what it saved is the state file of every entry of the id
DupReturn(t, res) ==
    /\ t \in Siblings
    /\ orch.task[t].st = "holding"
    /\ orch.task[t].started
    /\ res = "ctx" => orch.ctxDone
    /\ orch' = [orch EXCEPT !.task = [u \in Tasks |->
                   IF u = t
                   THEN [orch.task[u] EXCEPT !.st = "returned", !.res = res,
                            !.saved = TRUE, !.complete = (res = "nil")]
                   ELSE IF u \in Siblings /\ orch.task[u].id = orch.task[t].id
                        THEN [orch.task[u] EXCEPT !.complete = (res = "nil")]
                        ELSE orch.task[u]]]
    /\ UNCHANGED detailVars

\* Orchestrator.Download starts one goroutine per entry of the manifest
InitDup ==
    /\ fspec = [size |-> 0, checksum |-> FALSE]
    /\ cmd0 = NoOpts
    /\ InitDisk
    /\ pc = "idle"
    /\ opts = NoOpts
    /\ fstate = NoState
    /\ work = <<>>
    /\ rest = <<>>
    /\ adaptive = NoAdaptive
    /\ cancelled = FALSE
    /\ lastReq = NoReq
    /\ lastResult = "none"
    /\ merged = FALSE
    /\ faults = 0
    /\ killed = FALSE
    /\ lastErr = NoErr
    /\ ui = NoProgress
    /\ \E n \in 1..MaxParallelFiles : \E args \in ArgLists :
          orch = [parallelFiles |-> n,
                  task |-> [t \in Tasks |->
                      IF t = 0
                      THEN [st |-> "done", complete |-> TRUE, res |-> "skip",
                            started |-> FALSE, saved |-> FALSE,
                            blocked |-> FALSE, late |-> FALSE, id |-> 0]
                      ELSE [st |-> "go", complete |-> FALSE, res |-> "none",
                            started |-> FALSE, saved |-> FALSE,
                            blocked |-> FALSE, late |-> FALSE,
                            id |-> resolveManifest(args)[t]]],
                  ctxDone |-> FALSE, err |-> "none", result |-> "pending"]

NextDup ==
    \/ \E t \in Siblings : OrchCheck(t)
    \/ \E t \in Siblings : OrchAcquire(t)
    \/ \E t \in Siblings : OrchWaitCancelled(t)
    \/ \E t \in Siblings : SiblingStart(t)
    \/ \E t \in Siblings : \E res \in {"nil", "error", "ctx"} : DupReturn(t, res)
    \/ \E t \in Siblings : GroupSettle(t)
    \/ GroupWait

SpecDup == InitDup /\ [][NextDup]_vars


\* ---------------------------------------------------- MergeChunks, in steps
\* the merge as the loop it is: os.Create of <output>.tmp, one appendFile per
\* chunk in the order of fstate.Chunks, Sync, Close, Rename; any error
\* removes the temp file through the deferred function.  While pc = "merge"
\* the variable rest holds the positions that are still to be copied.

\* a file of the same name that the output directory held before the run
OldOutput == <<7>>

\* the parts of the first n chunks of the plan, in order
MergedPrefix(n) ==
    Concat([p \in 1..n |-> parts[fstate.chunks[p].index]])

\* case StatusMerging: saveState, MkdirAll, os.Create(tmpPath)
MergeBegin ==
    /\ AtLoop
    /\ ~cancelled
    /\ fstate.status = "merging"
    /\ disk' = fstate
    /\ outTmp' = <<>>
    /\ rest' = [p \in 1..Len(fstate.chunks) |-> p]
    /\ pc' = "merge"
    /\ UNCHANGED <<parts, chunkDir, out, md5, fstate, work>>
    /\ UNCHANGED <<memVars, histVars>>

\* MkdirAll or os.Create fails: MergeChunks returns before it has a temp
\* file of its own; what an earlier process left at the path stays
MergeCreateFails ==
    /\ AtLoop
    /\ ~cancelled
    /\ fstate.status = "merging"
    /\ Fail
    /\ UNCHANGED <<parts, chunkDir, outTmp, out, md5>>

\* appendFile(out, chunkPath) of the next chunk
MergeCopy ==
    /\ pc = "merge"
    /\ rest # <<>>
    /\ fstate.chunks[Head(rest)].index \in DOMAIN parts
    /\ outTmp' = outTmp \o parts[fstate.chunks[Head(rest)].index]
    /\ rest' = Tail(rest)
    /\ UNCHANGED <<disk, parts, chunkDir, out, md5, pc, fstate, work>>
    /\ UNCHANGED <<memVars, histVars>>

\* a failed copy that leaves the temp file behind
MergeCopyLeavesTemp ==
    /\ pc = "merge"
    /\ rest # <<>>
    /\ Fail
    /\ UNCHANGED <<parts, chunkDir, outTmp, out, md5>>

\* appendFile fails (os.Open of a missing part-file, io.Copy): the deferred
\* function removes the temp file, Run fails the file
MergeCopyFails ==
    /\ pc = "merge"
    /\ rest # <<>>
    /\ outTmp' = NoFile
    /\ Fail
    /\ UNCHANGED <<parts, chunkDir, out, md5>>

\* every part is copied: out.Sync(), out.Close()
MergeSynced ==
    /\ pc = "merge"
    /\ rest = <<>>
    /\ pc' = "rename"
    /\ UNCHANGED <<diskVars, fstate, work, rest>>
    /\ UNCHANGED <<memVars, histVars>>

\* Sync, Close or Rename returns an error: the temp file is removed
MergeEndFails ==
    /\ \/ pc = "merge" /\ rest = <<>>
       \/ pc = "rename"
    /\ outTmp' = NoFile
    /\ Fail
    /\ UNCHANGED <<parts, chunkDir, out, md5>>

\* a fresh state directory; the output path is free or holds an older file
InitMerge ==
    /\ fspec \in FileSpecs
    /\ cmd0 \in [chunkSize : 1..MaxChunkSize, parallel : {1},
                 adaptive : {FALSE}, limiter : {NoLimiter}]
    /\ disk = NoState
    /\ parts = NoParts
    /\ chunkDir = FALSE
    /\ outTmp = NoFile
    /\ out \in {NoFile, OldOutput}
    /\ md5 = NoDigest
    /\ aw = NoWrites
    /\ InitProcess

\* every run repeats the command; the server honours every Range with 206;
\* a step of the merge may fail; processes end by themselves or are killed
NextMerge ==
    \/ StartSame
    \/ SkipComplete
    \/ LoopChunking
    \/ LoopDownloading
    \/ ChunkSteps
    \/ BatchDone
    \/ MergeBegin
    \/ MergeCreateFails
    \/ MergeCopy
    \/ MergeCopyFails
    \/ MergeSynced
    \/ MergeEndFails
    \/ MergeRename
    \/ LoopVerifying
    \/ SaveComplete
    \/ Cleanup
    \/ LoopRetry
    \/ LoopReturn
    \/ Kill

SpecMerge == InitMerge /\ [][NextMerge]_vars


\* ------------------------------------------------- the file permits, fair
\* Orchestrator.Download with every File Downloader seen from outside: the
\* goroutines are scheduled fairly and every Run returns

\* a manifest of MaxSiblings files of which some are Complete on disk
InitPermits ==
    /\ fspec = [size |-> 0, checksum |-> FALSE]
    /\ cmd0 = NoOpts
    /\ InitDisk
    /\ pc = "idle"
    /\ opts = NoOpts
    /\ fstate = NoState
    /\ work = <<>>
    /\ rest = <<>>
    /\ adaptive = NoAdaptive
    /\ cancelled = FALSE
    /\ lastReq = NoReq
    /\ lastResult = "none"
    /\ merged = FALSE
    /\ faults = 0
    /\ killed = FALSE
    /\ lastErr = NoErr
    /\ ui = NoProgress
    /\ \E n \in 1..MaxParallelFiles : \E done \in SUBSET Siblings :
          orch = [parallelFiles |-> n,
                  task |-> [t \in Tasks |->
                      IF t = 0
                      THEN [NewTask(TRUE) EXCEPT !.st = "done", !.res = "skip"]
                      ELSE NewTask(t \in done)],
                  ctxDone |-> FALSE, err |-> "none", result |-> "pending"]

NextPermits ==
    \/ \E t \in Siblings : OrchCheck(t)
    \/ \E t \in Siblings : OrchAcquire(t)
    \/ \E t \in Siblings : OrchWaitCancelled(t)
    \/ \E t \in Siblings : SiblingStart(t)
    \/ \E t \in Siblings : \E res \in {"nil", "error", "ctx"} : SiblingReturn(t, res)
    \/ \E t \in Siblings : GroupSettle(t)
    \/ GroupWait

\* every goroutine that can take a step is scheduled
FairPermits ==
    /\ \A t \in Siblings : WF_vars(OrchCheck(t))
    /\ \A t \in Siblings : WF_vars(OrchAcquire(t))
    /\ \A t \in Siblings : WF_vars(OrchWaitCancelled(t))
    /\ \A t \in Siblings : WF_vars(SiblingStart(t))
    /\ \A t \in Siblings : WF_vars(\E res \in {"nil", "error", "ctx"} : SiblingReturn(t, res))
    /\ \A t \in Siblings : WF_vars(GroupSettle(t))
    /\ WF_vars(GroupWait)

SpecPermits == InitPermits /\ [][NextPermits]_vars /\ FairPermits

\* ------------------------------------------- Run on a loaded state, fair
\* Run from whatever LoadFileState decodes: json.Unmarshal checks no field,
\* so the status is any string of the file, "" when the key is missing

\* the FileStatus constants
FileStatuses == {"pending", "chunking", "downloading", "merging",
                 "verifying", "complete", "failed"}

\* the constants, and the zero value of a FileStatus
LoadedStatuses == FileStatuses \cup {""}

\* the chunk lists of a state file: none, a plan, a plan that is downloaded
LoadedChunks(fs) ==
    LET plan == InitChunks(fs).chunks
    IN  {<<>>, plan,
         [i \in 1..Len(plan) |->
             [plan[i] EXCEPT !.status = "complete",
                             !.bytes = plan[i].end - plan[i].start]]}

\* what LoadFileState returns for the state files of this FileSpec
LoadedStates(chunkSize) ==
    {[NewFileState(chunkSize) EXCEPT !.status = s, !.retryCount = r,
                                     !.chunks = ch] :
        s \in LoadedStatuses, r \in 0..maxFileRetries,
        ch \in LoadedChunks(NewFileState(chunkSize))}

\* saveState at the top of the loop, for a status that no case names
LoopSave ==
    /\ AtLoop
    /\ ~cancelled
    /\ fstate.status \notin FileStatuses
    /\ disk' = fstate
    /\ pc' = "switch"
    /\ UNCHANGED <<parts, chunkDir, outTmp, out, md5, fstate, work, rest>>
    /\ UNCHANGED <<memVars, histVars>>

\* the switch has no default: no case runs and the for loop starts over
LoopNoCase ==
    /\ pc = "switch"
    /\ pc' = "loop"
    /\ UNCHANGED <<diskVars, fstate, work, rest>>
    /\ UNCHANGED <<memVars, histVars>>

\* the steps of the goroutine that runs Run
RunSteps ==
    \/ FileSteps
    \/ LoopRetry
    \/ LoopReturn
    \/ LoopSave
    \/ LoopNoCase

\* positions of a chunk in fstate.chunks
Positions == 1..MaxPlanChunks

\* the steps of the goroutine of one chunk; the server answers every
\* request, with 206 or with an API error
WorkerSteps(p) ==
    /\ p \in DOMAIN work
    /\ \/ ChunkFastPath(p)
       \/ ChunkRequest(p, "206")
       \/ \E r \in BOOLEAN : ChunkApiError(p, r)
       \/ ChunkWrite(p)
       \/ ChunkEOF(p)
       \/ ChunkCancelled(p)
       \/ ChunkRequestCancelled(p)

\* a state file of any loadable content, written with any --chunk-size, or
\* none, and no process yet
InitLoad ==
    /\ fspec \in FileSpecs
    /\ cmd0 \in [chunkSize : 1..MaxChunkSize, parallel : 1..MaxParallel,
                 adaptive : {FALSE}, limiter : {NoLimiter}]
    /\ disk \in {NoState} \cup UNION {LoadedStates(cs) : cs \in 1..MaxChunkSize}
    /\ parts = NoParts
    /\ chunkDir = FALSE
    /\ outTmp = NoFile
    /\ out = NoFile
    /\ md5 = NoDigest
    /\ aw = NoWrites
    /\ InitProcess

NextLoad ==
    \/ StartSame
    \/ RunSteps
    \/ \E p \in Positions : WorkerSteps(p)

\* the Go scheduler runs every goroutine that can take a step
FairLoad ==
    /\ WF_vars(RunSteps)
    /\ \A p \in Positions : WF_vars(WorkerSteps(p))

SpecLoad == InitLoad /\ [][NextLoad]_vars /\ FairLoad

\* ------------------------------------------- resolveManifest, the sizes
\* Size: FileSize - 16, the IV stripped in plain mode, for a dataset file
\* and for a file given by its id
PlainSize(fileSize) == fileSize - 16

\* the fileSize values of the metadata: shorter than the IV, the IV alone,
\* and the IV with up to MaxSize bytes
FileSizes == 0..(MaxSize + 16)

\* a fresh output directory and the FileSpec that resolveManifest builds
InitMeta ==
    /\ \E n \in FileSizes : \E k \in BOOLEAN :
          fspec = [size |-> PlainSize(n), checksum |-> k]
    /\ cmd0 \in Options
    /\ InitDisk
    /\ InitProcess

SpecMeta == InitMeta /\ [][NextResume]_vars


\* ------------------------------------------------------------------ claims
HasPlan(fs) ==
    fs.status \in {"downloading", "merging", "verifying", "complete", "failed"}

ChunkSeq(fs) == IF fs = NoState THEN <<>> ELSE fs.chunks

\* C1 (Resume law): with a server that honours every Range with 206 and the
\* same command in every run, whatever the instants at which processes were
\* killed, a run that ends successfully and a persisted status Complete
\* come with an output file equal to the source, byte for byte.
ResumeLaw ==
    (lastResult = "ok" \/ disk.status = "complete") =>
        /\ disk.status = "complete"
        /\ out = Source

\* after a kill, a later run drove a file of several chunks to Complete
\* and returned without error
ResumeWitness ==
    /\ killed
    /\ lastResult = "ok"
    /\ disk.status = "complete"
    /\ Len(disk.chunks) > 1
    /\ out = Source


IsPartition(fs) ==
    /\ Len(fs.chunks) >= 1
    /\ fs.chunks[1].start = 0
    /\ fs.chunks[Len(fs.chunks)].end = fs.size
    /\ \A p \in 1..Len(fs.chunks) :
          /\ fs.chunks[p].index = p - 1
          /\ fs.chunks[p].start <= fs.chunks[p].end
          /\ fs.chunks[p].start < fs.chunks[p].end \/ fs.size = 0
          /\ p < Len(fs.chunks) => fs.chunks[p].end = fs.chunks[p + 1].start
    /\ fs.size = 0 => Len(fs.chunks) = 1

\* C2 (Partition law): every persisted FileState that carries a chunk plan
\* has chunks that partition [0, size) without gap or overlap, with dense
\* 0-based indices, across runs started with any options.
PartitionLaw == HasPlan(disk) => IsPartition(disk)

\* C6: an uninterrupted run against a server that honours every Range,
\* after any number of interrupted runs, ends with the file Complete.
InterruptLaw ==
    (Idle /\ lastResult \in {"ok", "err"}) => disk.status = "complete"

\* C7: a worker whose request for a chunk with existing > 0 bytes was
\* answered 200 writes the body to a part-file truncated to zero: the
\* part-file holds the written bytes of the body and nothing before them.
TruncateOn200 ==
    \A p \in DOMAIN work :
        (work[p].st = "body" /\ work[p].code = 200 /\ work[p].existing > 0) =>
            (work[p].written > 0 =>
                FileLen(parts, fstate.chunks[p].index) = work[p].written)

\* C8: every chunk that the persisted FileState of a not yet Complete file
\* records as Complete has a part-file of exactly end - start bytes.
CompletePartLength ==
    (disk # NoState /\ disk.status # "complete") =>
        \A p \in 1..Len(disk.chunks) :
            disk.chunks[p].status = "complete" =>
                /\ disk.chunks[p].index \in DOMAIN parts
                /\ Len(parts[disk.chunks[p].index]) = Expected(disk.chunks[p])

\* C9: bytes_downloaded <= end - start for every chunk, in memory and on
\* disk, whatever the length of the bodies the server returns.
BytesBound ==
    /\ \A p \in 1..Len(ChunkSeq(fstate)) :
          fstate.chunks[p].bytes <= Expected(fstate.chunks[p])
    /\ \A p \in 1..Len(ChunkSeq(disk)) :
          disk.chunks[p].bytes <= Expected(disk.chunks[p])


OutputVerified ==
    /\ out # NoFile
    /\ fspec.checksum => ComputeChecksum(out) = ChecksumExpected
    /\ md5 = ComputeChecksum(out)

\* C4 as claimed: the process that persisted Complete has itself renamed
\* the merged output into place, verified it and written the sidecar, and
\* a persisted Complete comes with an output that matches the checksum
\* (stated for files that have bytes to merge).
CompleteMergedInRun ==
    /\ (pc = "cleanup" /\ fspec.size > 0) => merged
    /\ disk.status = "complete" => OutputVerified

\* C4 as amended: Complete is persisted only by a process that stands
\* right behind its own successful verification and sidecar write (the
\* merge may be the work of an earlier run), and whenever the persisted
\* status is Complete the output exists, matches the expected checksum when
\* one is given, and the sidecar holds its MD5.
CompleteIsVerified ==
    /\ [](disk.status = "complete" => OutputVerified)
    /\ [][(disk'.status = "complete" /\ disk.status # "complete") =>
             (pc = "complete" /\ OutputVerified)]_vars

\* a process that resumed a file persisted as Verifying, with a checksum to
\* verify, and persisted Complete without merging
CompleteWitness ==
    /\ pc = "cleanup"
    /\ ~merged
    /\ fspec.checksum
    /\ disk.status = "complete"
    /\ fspec.size > 0

\* C5 (Idempotence law): a run started when the persisted status is
\* Complete sends no ranged request, leaves the output, the sidecar and the
\* state file as they are, and fires on_skip only.
Idempotence ==
    [][(Idle /\ disk.status = "complete") =>
          /\ disk' = disk
          /\ out' = out
          /\ md5' = md5
          /\ lastReq' = NoReq
          /\ lastResult' = "skipped"]_vars

\* a completed file that was skipped by a later run
IdempotenceWitness ==
    /\ Idle
    /\ lastResult = "skipped"
    /\ disk.status = "complete"
    /\ out # NoFile

SumInState(fs) == bytesDownloaded([chunks |-> ChunkSeq(fs)])

AtomicWriteLaw ==
    /\ [](\A t \in Paths : aw.file[t] = NoContent \/ IsWhole(aw.file[t]))
    /\ [][\A t \in Paths :
             \/ aw'.file[t] = aw.file[t]
             \/ aw'.file[t].ver = aw.n[t] /\ IsWhole(aw'.file[t])]_vars

\* every path holds a complete earlier content while a crashed writer's
\* partly written newer content lies in its temp file
AtomicWriteWitness ==
    \A t \in Paths :
        /\ ~aw.open[t]
        /\ IsWhole(aw.file[t])
        /\ aw.tmp[t].ver > aw.file[t].ver
        /\ aw.tmp[t].len > 0
        /\ aw.tmp[t].len < aw.tmp[t].full


\* C11: whenever no process is between two steps and the persisted status
\* is Complete, the chunks directory of the file is gone, also after a
\* crash between persisting Complete and the cleanup.
ChunksRemoved ==
    (Idle /\ disk.status = "complete") => (~chunkDir /\ parts = NoParts)


\* C12 (Chunk retry policy): whatever retry_count the chunk carries, one
\* call of the chunk downloader makes at most 6 attempts; the attempt
\* number goes up only in a step in which that chunk's attempt failed with
\* an error classed as retryable, and a step in which its attempt failed
\* with an error classed as not retryable ends the call with an error.
RetryPolicy ==
    /\ [](\A p \in DOMAIN work : work[p].attempt + 1 <= 6)
    /\ [][\A p \in (DOMAIN work) \cap (DOMAIN work') :
             /\ work'[p].attempt = work[p].attempt + 1 =>
                   /\ faults' = faults + 1
                   /\ lastErr'.pos = p
                   /\ lastErr'.retried
             /\ (faults' = faults + 1 /\ lastErr'.pos = p /\ ~lastErr'.retried) =>
                   /\ work'[p].st = "done"
                   /\ work'[p].err]_vars

\* the sixth attempt of a call that started with a persisted retry_count
\* above zero
RetryPolicyWitness ==
    \E p \in DOMAIN work :
        /\ work[p].st \in {"try", "body"}
        /\ work[p].attempt = 5
        /\ fstate.chunks[p].retry > 5
        /\ disk.chunks[p].retry > 0


IsTransportError(chain) ==
    \E i \in 1..Len(chain) : chain[i].t \in {"UrlError", "OpError"}

IsPlainAPIError(chain) ==
    /\ AsAPIError(chain)
    /\ \A i \in 1..Len(chain) : chain[i].t \in {"Wrap", "APIError"}

\* C13: the classification follows the taxonomy: an API error with status
\* 5xx or 429 is retryable, one with another 4xx status is not, a
\* cancellation or deadline error that is not a transport error is not
\* retryable, and a transport error is retryable whatever it wraps.
TaxonomyLaw ==
    lastErr # NoErr =>
        LET chain == lastErr.chain
        IN  /\ IsPlainAPIError(chain) =>
                 LET st == FirstAPIError(chain).status
                 IN  /\ (st >= 500 \/ st = 429) => lastErr.retried
                     /\ (st >= 400 /\ st < 500 /\ st # 429) => ~lastErr.retried
            /\ (IsContextError(chain) /\ ~IsTransportError(chain)) =>
                 ~lastErr.retried
            /\ IsTransportError(chain) => lastErr.retried

\* C14: an attempt that fails with a local I/O error (create, open or
\* write of the part-file) ends the call of the chunk downloader with an
\* error in that step, without a further attempt.
LocalErrorFatal ==
    [][(faults' = faults + 1 /\ lastErr'.chain \in LocalErrors) =>
          /\ ~lastErr'.retried
          /\ work'[lastErr'.pos].st = "done"
          /\ work'[lastErr'.pos].err]_vars


\* C15 (File-level retry budget): a run that finds the loaded state Failed
\* with retry_count < 3 adds one to retry_count, clears error and goes to
\* Downloading; with retry_count = 3 it returns an error, has sent no
\* request and leaves status and retry_count as they are; the persisted
\* retry_count never goes down and never exceeds 3.
FileRetryBudget ==
    /\ [](/\ disk # NoState => disk.retryCount <= 3
          /\ fstate # NoState => fstate.retryCount <= 3
          /\ (AtLoop /\ fstate.status = "failed") => lastReq = NoReq)
    /\ [][(disk # NoState /\ disk' # NoState) =>
             disk'.retryCount >= disk.retryCount]_vars
    /\ [][(AtLoop /\ fstate.status = "failed" /\ ~cancelled) =>
             IF fstate.retryCount < 3
             THEN fstate' = [fstate EXCEPT !.retryCount = @ + 1,
                                           !.status = "downloading",
                                           !.error = ""]
             ELSE /\ lastResult' = "err"
                  /\ lastReq' = NoReq
                  /\ disk'.status = "failed"
                  /\ disk'.retryCount = fstate.retryCount]_vars

\* a run that loaded a Failed state whose budget is used up
FileRetryWitness ==
    /\ AtLoop
    /\ fstate.status = "failed"
    /\ fstate.retryCount = 3
    /\ disk = fstate


\* C16: a file with an expected checksum whose part-file was damaged once
\* before the merge does not use up its 3 file-level retries: no run of the
\* command leaves it Failed with retry_count = 3.
ChecksumRetryConverges ==
    fspec.checksum =>
        ~(/\ Idle
          /\ lastResult = "err"
          /\ disk.status = "failed"
          /\ disk.retryCount = 3)


\* C17: a chunk download that ends with an error after the signal
\* cancelled the context leaves its chunk not Complete, saves the state and
\* keeps every part-file as it is; and every request, so also the first one
\* of the next run, asks for bytes (start + part-file length) to (end - 1)
\* of its chunk.
CancelKeepsBytes ==
    /\ [][\A p \in (DOMAIN work) \cap (DOMAIN work') :
             (/\ cancelled
              /\ work[p].st # "done"
              /\ work'[p].st = "done"
              /\ work'[p].err) =>
                 /\ fstate'.chunks[p].status # "complete"
                 /\ disk' = fstate'
                 /\ parts' = parts]_vars
    /\ [][(lastReq' # lastReq /\ lastReq' # NoReq) =>
             \E p \in 1..Len(fstate.chunks) :
                 LET c == fstate.chunks[p]
                 IN  /\ lastReq'.index = c.index
                     /\ lastReq'.from = c.start + FileLen(parts, c.index)
                     /\ lastReq'.to = c.end - 1]_vars

\* the run after a cancelled one asks for the rest of a chunk whose
\* part-file holds the bytes that were streamed before the signal
CancelWitness ==
    /\ lastResult = "running"
    /\ fstate # NoState
    /\ disk # NoState
    /\ disk.retryCount > 0
    /\ ~killed
    /\ \E p \in 1..Len(fstate.chunks) :
          LET c == fstate.chunks[p]
          IN  /\ lastReq.index = c.index
              /\ lastReq.from > c.start
              /\ lastReq.to = c.end - 1


\* C18 (Two-level concurrency budget): at every instant at most
\* parallel_files file tasks hold a permit, and the running File Downloader
\* has at most parallel_chunks chunk downloads in flight, in the
\* non-adaptive and in the adaptive dispatch.
ConcurrencyBudget ==
    /\ Cardinality(Holding) <= orch.parallelFiles
    /\ opts # NoOpts => Cardinality(Running) <= opts.parallel

\* both budgets are used up while a file task and a chunk worker wait
ConcurrencyWitness ==
    /\ orch.parallelFiles > 1
    /\ Cardinality(Holding) = orch.parallelFiles
    /\ \E t \in Tasks : orch.task[t].st = "waiting"
    /\ opts # NoOpts
    /\ opts.parallel > 1
    /\ Cardinality(Running) = opts.parallel
    /\ \E p \in DOMAIN work : work[p].st = "wait"

\* C19: once the error of a file task has cancelled the shared context, a
\* task that is still waiting for a permit does not get one: it starts no
\* File Downloader.
NoStartAfterError ==
    [][\A t \in Tasks :
          (/\ orch.task[t].st = "waiting"
           /\ orch.ctxDone
           /\ orch.err = "error") =>
              orch'.task[t].st # "holding"]_vars

\* C20: a file whose persisted status is Complete fires on_skip and
\* returns from its first look at the state; it never waits for and never
\* holds a permit, also when every permit is taken and when the shared
\* context is cancelled.
SkipNeedsNoPermit ==
    /\ [](\A t \in Tasks :
             (orch.task[t].complete /\ orch.task[t].st \in {"go", "waiting", "holding"})
                 => orch.task[t].st = "go")
    /\ [][\A t \in Tasks :
             (orch.task[t].st = "go" /\ orch.task[t].complete) =>
                 \/ orch'.task[t] = orch.task[t]
                 \/ /\ orch'.task[t].st = "done"
                    /\ orch'.task[t].res = "skip"
                    /\ ~orch'.task[t].started]_vars

\* a Complete file was skipped while every permit was taken and the shared
\* context was cancelled
SkipWitness ==
    \E t \in Tasks :
        /\ orch.task[t].st = "done"
        /\ orch.task[t].res = "skip"
        /\ orch.task[t].blocked
        /\ orch.task[t].late


\* downloadChunks calls rechunkRemaining in the step that follows: the batch
\* returned without error, chunks are left and the adaptive size differs
Rechunking ==
    /\ Downloading
    /\ \A p \in DOMAIN work : work[p].st = "done" /\ ~work[p].err
    /\ adaptive # NoAdaptive
    /\ rest # <<>>
    /\ adaptive.cur # fstate.chunkSize
    /\ pc' = "dl"

\* C21: rechunkRemaining keeps every Complete chunk as it is and touches no
\* part-file; the new chunks are pending, cover exactly
\* [first_incomplete.start, size) without gap, carry dense indices that
\* continue after the kept chunks, and none has the index of a kept chunk.
RechunkKeepsPrefix ==
    [][Rechunking =>
        LET old == fstate.chunks
            new == fstate'.chunks
            kept == SelectSeq(old, LAMBDA c : c.status = "complete")
            k == Len(kept)
            first == old[Head(PendingChunks(fstate))].start
        IN  /\ parts' = parts
            /\ Len(new) > k
            /\ SubSeq(new, 1, k) = kept
            /\ new[k + 1].start = first
            /\ new[Len(new)].end = fstate.size
            /\ \A i \in (k + 1)..Len(new) :
                  /\ new[i].status = "pending"
                  /\ new[i].start < new[i].end
                  /\ new[i].index = i - 1
                  /\ i < Len(new) => new[i].end = new[i + 1].start
                  /\ \A j \in 1..k : new[j].index # new[i].index]_vars


\* a batch of parallel_chunks chunks returned without error and the next
\* batch is dispatched in the step that follows
BatchEnds ==
    /\ Downloading
    /\ \A p \in DOMAIN work : work[p].st = "done" /\ ~work[p].err
    /\ adaptive # NoAdaptive
    /\ rest # <<>>
    /\ pc' = "dl"

\* C22: when a batch of parallel_chunks chunks ends with a full window, the
\* chunk size of the next batch is one step away from the chunk_size of the
\* batch: x 1.5 for a window mean above 50, x 0.5 for one below 10, the same
\* size otherwise, and then the clamp to [8 MiB, 256 MiB].
SizingRule ==
    [][(/\ BatchEnds
        /\ Cardinality(DOMAIN work) = opts.parallel
        /\ Len(adaptive.win) = adaptiveWindowSize)
       => LET current == fstate.chunkSize
              class == WindowClass(adaptive.win)
          IN  fstate'.chunkSize =
                  Clamp(CASE class = "up" -> (current * 3) \div 2
                          [] class = "down" -> current \div 2
                          [] OTHER -> current)]_vars


\* C23: every chunk_size that rechunkRemaining writes to the FileState lies
\* in [8 MiB, 256 MiB], whatever chunk size the command line gives and
\* whatever chunk_size an earlier run persisted.
RechunkSizeInRange ==
    [][Rechunking =>
        /\ minAdaptiveChunkSize <= fstate'.chunkSize
        /\ fstate'.chunkSize <= maxAdaptiveChunkSize
        /\ disk'.chunkSize = fstate'.chunkSize]_vars


\* C24: with a server that honours every Range and clean run between the
\* runs, a download run that is not killed ends with the file Complete: no
\* run ends with an error because a chunk recorded as Complete has lost its
\* part-file.
CleanKeepsResumable ==
    lastResult \in {"ok", "err"} =>
        /\ disk # NoState
        /\ disk.status = "complete"
        /\ out = Source


\* C25: a file of size zero has the one chunk [0,0) as its plan, no request
\* is ever sent for it, a run that returns by itself returns without error,
\* and a successful run or a persisted status Complete comes with a
\* zero-byte output file and its .md5 sidecar.
ZeroSizeFile ==
    fspec.size = 0 =>
        /\ lastReq = NoReq
        /\ faults = 0
        /\ lastResult # "err"
        /\ (disk # NoState /\ HasPlan(disk)) =>
              /\ Len(disk.chunks) = 1
              /\ disk.chunks[1].index = 0
              /\ disk.chunks[1].start = 0
              /\ disk.chunks[1].end = 0
        /\ (lastResult = "ok" \/ (disk # NoState /\ disk.status = "complete")) =>
              /\ disk.status = "complete"
              /\ out = <<>>
              /\ md5 = ComputeChecksum(<<>>)

\* a zero-size file with a checksum in the manifest was driven to Complete
\* by a run that followed a kill
ZeroSizeWitness ==
    /\ fspec.size = 0
    /\ fspec.checksum
    /\ killed
    /\ lastResult = "ok"
    /\ disk.status = "complete"
    /\ Len(disk.chunks) = 1
    /\ out = <<>>
    /\ md5 = ComputeChecksum(<<>>)
    /\ parts = NoParts


\* C26: when a limiter is configured, the bytes that the chunk workers of
\* the job have written to part-files never exceed the tokens taken from
\* the shared bucket: every byte is charged before it is written.
BytesCharged ==
    (opts.limiter # NoLimiter /\ fstate # NoState) =>
        BytesWritten <= opts.limiter.taken


\* the edges of the file state machine; "absent" is the file before its
\* first snapshot
Edges ==
    {<<"absent", "pending">>, <<"pending", "downloading">>,
     <<"chunking", "downloading">>, <<"downloading", "merging">>,
     <<"merging", "verifying">>, <<"verifying", "complete">>,
     <<"downloading", "failed">>, <<"merging", "failed">>,
     <<"verifying", "failed">>, <<"failed", "downloading">>}

Follows(a, b) == a = b \/ <<a, b>> \in Edges

\* C27: from one persisted snapshot to the next the status stays or follows
\* an edge of the state machine, and a persisted Complete state is never
\* changed by a download run.  A step of the Run loop that fails stands for
\* two saves, the one at the top of the loop and the one of fail.
StatusEdges ==
    [][disk' # disk =>
          LET mid == IF AtLoop THEN fstate.status ELSE disk.status
          IN  /\ Follows(disk.status, mid)
              /\ Follows(mid, disk'.status)
              /\ disk.status # "complete"]_vars

\* a file went to Failed, a later run took it back to Downloading and on to
\* Complete, and the run after that left the state as it was
StatusEdgesWitness ==
    /\ disk # NoState
    /\ disk.status = "complete"
    /\ disk.retryCount > 0
    /\ lastResult = "skipped"


\* C28: the persisted status is never ahead of the work done, whatever the
\* instant of a kill: Merging on disk comes with every chunk Complete and
\* its part-file on disk, Verifying with the merged output renamed into
\* place, Complete with an output that passed verification and a sidecar
\* holding its digest.
StatusBehindWork ==
    disk # NoState =>
        /\ disk.status \in {"merging", "verifying", "complete"} =>
              AllChunksComplete(disk)
        /\ disk.status = "merging" =>
              \A p \in 1..Len(disk.chunks) : disk.chunks[p].index \in DOMAIN parts
        /\ disk.status \in {"verifying", "complete"} =>
              /\ out # NoFile
              /\ outTmp = NoFile
        /\ disk.status = "complete" =>
              /\ fspec.checksum => ComputeChecksum(out) = ChecksumExpected
              /\ md5 = ComputeChecksum(out)

\* a process was killed and left Verifying on disk for a file of several
\* chunks, with the merged output in place
StatusBehindWitness ==
    /\ killed
    /\ Idle
    /\ lastResult = "killed"
    /\ disk # NoState
    /\ disk.status = "verifying"
    /\ Len(disk.chunks) > 1
    /\ out # NoFile


\* the phase the process is in has failed: a chunk worker of the batch
\* returned an error, a part-file cannot be opened for the merge, or the
\* output does not pass verifyChecksum / cannot be read by writeMD5File
PhaseFails ==
    \/ /\ pc = "dl"
       /\ \A p \in DOMAIN work : work[p].st = "done"
       /\ \E p \in DOMAIN work : work[p].err
    \/ /\ AtLoop
       /\ ~cancelled
       /\ fstate.status = "merging"
       /\ \E p \in 1..Len(fstate.chunks) : fstate.chunks[p].index \notin DOMAIN parts
    \/ /\ AtLoop
       /\ ~cancelled
       /\ fstate.status = "verifying"
       /\ ~VerifyOk

\* C29: Failed is terminal for the invocation. The step of a process whose
\* phase failed persists Failed with the error text and returns the error;
\* Failed is persisted by no other step, and a live process holds Failed in
\* memory only as loaded from disk; the retry edge Failed -> Downloading is
\* the first thing done by a process that loaded Failed.
FailedIsTerminal ==
    [][/\ (PhaseFails /\ pc' # pc /\ lastResult' # "killed") =>
              /\ disk' = [fstate EXCEPT !.status = "failed", !.error = "err"]
              /\ Idle'
              /\ lastResult' \in {"err", "interrupted"}
       /\ (disk' # disk /\ disk'.status = "failed" /\ disk.status # "failed") =>
              /\ PhaseFails
              /\ disk'.error # ""
              /\ Idle'
              /\ lastResult' \in {"err", "interrupted"}
       /\ (fstate' # fstate /\ fstate'.status = "failed") =>
              /\ Idle
              /\ disk.status = "failed"
              /\ fstate' = disk
       /\ (fstate.status = "failed" /\ fstate'.status = "downloading") =>
              /\ disk.status = "failed"
              /\ fstate = disk
              /\ fstate'.retryCount = disk.retryCount + 1
              /\ work = <<>>
              /\ lastReq = NoReq
              /\ ~merged
      ]_vars

\* a process loaded Failed, took the retry edge, failed again in a phase and
\* returned the error
FailedWitness ==
    /\ Idle
    /\ lastResult = "err"
    /\ disk # NoState
    /\ disk.status = "failed"
    /\ disk.error # ""
    /\ disk.retryCount = 1


\* a step of the state-machine loop, of fail or of rechunking: a step taken
\* outside a batch, or the step that ends a batch or dispatches the next
LoopStep ==
    \/ pc # "dl"
    \/ /\ lastResult' # "killed"
       /\ \/ pc' # "dl"
          \/ DOMAIN work' # DOMAIN work

\* C30: the saves of one FileState are strictly ordered. At most one chunk
\* worker is inside saveState; a step of the loop, of fail or of rechunking
\* is taken only while every worker of the file has returned; any other
\* change of the state file is the rename of the one worker that holds the
\* mutex; and when Run returns, the state file holds the last in-memory
\* state.
SavesOrdered ==
    [][/\ Cardinality({p \in DOMAIN work : work[p].st = "saving"}) <= 1
       /\ LoopStep => \A p \in DOMAIN work : work[p].st = "done"
       /\ (disk' # disk /\ ~LoopStep) =>
              \E p \in DOMAIN work :
                 /\ work[p].st = "saving"
                 /\ disk' = work[p].snap
                 /\ work'[p].st = "done"
                 /\ \A q \in DOMAIN work \ {p} : work'[q] = work[q]
       /\ (~Idle /\ Idle' /\ lastResult' # "killed") =>
              disk' = IF PhaseFails
                      THEN [fstate EXCEPT !.status = "failed", !.error = "err"]
                      ELSE fstate
      ]_vars

\* a worker is inside saveState with a snapshot that the state file does not
\* hold yet, while another worker has returned from Download and waits for
\* the mutex
SavesOrderedWitness ==
    /\ Downloading
    /\ \E p \in DOMAIN work : \E q \in DOMAIN work :
          /\ work[p].st = "saving"
          /\ work[p].snap # disk
          /\ work[q].st = "returned"


\* C31: chunk fields are written and read under the file's mutex. No step
\* changes a ChunkState of the running batch while a worker of the same file
\* is inside saveState reading the FileState, and every snapshot that reaches
\* the state file is a value fd.fstate held while the lock was taken.
ChunksBehindMutex ==
    [][/\ (Downloading /\ Downloading' /\ fstate'.chunks # fstate.chunks) => muFree
       /\ \A p \in DOMAIN work :
             (work[p].st = "saving" /\ Marshalled(p) = Len(fstate.chunks)) =>
                 work[p].snap.chunks = fstate.chunks
      ]_vars


\* C32: the progress callbacks of one file are serialized and monotonic.
\* When a call of the progress callback begins, no other call for the file
\* is under way, and the value it passes is not below the value passed by
\* the call before it.
ProgressSerial ==
    [][\A p \in DOMAIN ui.calls :
          (/\ ui.calls[p].st = "ready"
           /\ p \in DOMAIN ui'.calls
           /\ ui'.calls[p].st = "running") =>
              /\ \A q \in DOMAIN ui.calls : ui.calls[q].st # "running"
              /\ ui.calls[p].cur >= ui.last
      ]_vars


\* C33: exclusive ownership. At any time at most one File Downloader runs
\* for a file id, whatever the manifest lists.
OneDownloaderPerFile ==
    \A id \in {1, 2} : Cardinality(RunningFor(id)) <= 1


\* C34: part-files agree with the persisted plan. A part-file that exists
\* for a chunk of the plan holds the source bytes from the start of the chunk
\* on, and no more of them than the chunk is long.
PartsMatchPlan ==
    disk # NoState =>
        \A p \in 1..Len(disk.chunks) :
            LET c == disk.chunks[p]
            IN  c.index \in DOMAIN parts =>
                    /\ Len(parts[c.index]) <= c.end - c.start
                    /\ parts[c.index] =
                           SeqRange(c.start, c.start + Len(parts[c.index]))


\* C35: the attempt on a chunk of expected = end - start > 0 bytes whose
\* part-file holds existing bytes. With existing >= expected the attempt
\* sends no request and leaves the chunk Complete with bytes_downloaded =
\* expected; otherwise it sends one GET, for the bytes start + existing to
\* end - 1, and without that GET no body is read.
AttemptLaw ==
    [][(pc = "dl" /\ pc' = "dl" /\ DOMAIN work' = DOMAIN work) =>
          \A p \in DOMAIN work :
             (work[p].st \in {"wait", "try"} /\ work'[p] # work[p]) =>
                LET c == fstate.chunks[p]
                    expected == c.end - c.start
                    existing == FileLen(parts, c.index)
                IN  /\ (expected > 0 /\ existing >= expected /\ ~work'[p].err) =>
                           /\ lastReq' = lastReq
                           /\ work'[p].st = "done"
                           /\ fstate'.chunks[p].status = "complete"
                           /\ fstate'.chunks[p].bytes = expected
                    /\ (lastReq' # lastReq \/ work'[p].st = "body") =>
                           /\ expected > 0
                           /\ existing < expected
                           /\ lastReq' = [index |-> c.index,
                                          from |-> c.start + existing,
                                          to |-> c.end - 1]
      ]_vars

\* a resumed chunk: the last request asked for the rest of a chunk whose
\* part-file already held some bytes, more than the state had recorded
AttemptWitness ==
    /\ Downloading
    /\ killed
    /\ \E p \in DOMAIN work :
          /\ work[p].st = "body"
          /\ lastReq.index = fstate.chunks[p].index
          /\ lastReq.from > fstate.chunks[p].start
          /\ lastReq.from > fstate.chunks[p].start + disk.chunks[p].bytes


PermitDiscipline ==
    /\ \A t \in Siblings :
          (orch.task[t].st = "waiting") ~> (orch.task[t].st # "waiting")
    /\ \A t \in Siblings :
          (orch.task[t].st = "holding") ~> (orch.task[t].st # "holding")
    /\ <>(orch.result # "pending")
    /\ [](orch.result # "pending" => (Holding = {} /\ permitFree(orch)))

\* Download has returned an error: one file ran with a permit and failed,
\* another gave up waiting when it saw the cancelled context
PermitWitness ==
    /\ orch.result = "error"
    /\ \E t \in Siblings : orch.task[t].started /\ orch.task[t].res = "error"
    /\ \E t \in Siblings : ~orch.task[t].started /\ orch.task[t].res = "ctx"
    /\ Holding = {}

RunReturnsKnown ==
    (pc # "idle" /\ fstate.status \in FileStatuses) ~> (pc = "idle")

\* C39: resuming never overwrites a chunk plan: a Run that loads a state
\* takes its chunks and chunk_size as they are, whatever --chunk-size it was
\* started with, and InitChunks on a state that has chunks changes neither
\* (InitChunks is idempotent).
PlanKept ==
    /\ [][(Idle /\ pc' = "loop" /\ disk # NoState)
             => /\ fstate'.chunks = disk.chunks
                /\ fstate'.chunkSize = disk.chunkSize]_vars
    /\ [][(AtLoop /\ fstate.status \in {"pending", "chunking"}
                  /\ Len(fstate.chunks) > 0)
             => /\ InitChunks(fstate) = fstate
                /\ fstate'.chunks = fstate.chunks
                /\ fstate'.chunkSize = fstate.chunkSize]_vars
    /\ [](fstate # NoState
             => InitChunks(InitChunks(fstate)) = InitChunks(fstate))

\* a Run started with another --chunk-size went through the Pending case with
\* a loaded plan of which a chunk is downloaded
PlanKeptWitness ==
    /\ AtLoop
    /\ fstate.status = "downloading"
    /\ disk # NoState
    /\ disk.status \in {"pending", "chunking"}
    /\ Len(disk.chunks) > 1
    /\ fstate.chunks = disk.chunks
    /\ fstate.chunkSize # opts.chunkSize
    /\ \E i \in 1..Len(fstate.chunks) : fstate.chunks[i].status = "complete"

\* C40: every FileSpec built from the metadata has a size that is not
\* negative, and the chunk plan built from it ends at that size.
SizeLaw ==
    /\ fspec.size >= 0
    /\ (fstate # NoState /\ Len(fstate.chunks) > 0)
          => fstate.chunks[Len(fstate.chunks)].end = fspec.size

\* the second half alone: a plan ends at the size of the FileSpec
PlanEndsAtSize ==
    (fstate # NoState /\ Len(fstate.chunks) > 0)
        => fstate.chunks[Len(fstate.chunks)].end = fspec.size

====
